---- MODULE Spec2Model ----
(***************************************************************************)
(* Model of the conspiracy feature-control runtime                         *)
(* (conspiracy/src/feature_control.rs, feature_control/tracker.rs) and of  *)
(* the code emitted by the feature macros                                  *)
(* (conspiracy_macros/src/feature_control.rs).                             *)
(*                                                                         *)
(* Every access to the two statics GLOBAL_TRACKER_INIT and GLOBAL_TRACKER  *)
(* is one step of the calling thread, so that all interleavings of         *)
(* registrations and reads are explored.  What a call does between two     *)
(* such accesses is local to it and belongs to the step of the access.     *)
(***************************************************************************)
EXTENDS Integers, Sequences, FiniteSets, TLC

(***************************************************************************)
(* Bounds of the exploration.                                              *)
(***************************************************************************)
NThreads == 2
MaxSetCalls == 2
MaxReads == 1
MaxLeaf == 1

Threads == 1..NThreads

(***************************************************************************)
(* feature_control.rs:269-271                                              *)
(***************************************************************************)
UNINITIALIZED == 0
INITIALIZING == 1
INITIALIZED == 2

(***************************************************************************)
(* Memory orderings written in the source.                                 *)
(***************************************************************************)
CasOrdering == "SeqCst"
InitStoreOrdering == "SeqCst"
GuardLoadOrdering == "Relaxed"

IsAcquire(o) == o \in {"Acquire", "AcqRel", "SeqCst"}
IsRelease(o) == o \in {"Release", "AcqRel", "SeqCst"}

(***************************************************************************)
(* Identifiers are sequences of characters, so that the case conversions   *)
(* of the macros are computed and not assumed.                             *)
(***************************************************************************)
UpperChars == <<"A","B","C","D","E","F","G","H","I","J","K","L","M",
                "N","O","P","Q","R","S","T","U","V","W","X","Y","Z">>
LowerChars == <<"a","b","c","d","e","f","g","h","i","j","k","l","m",
                "n","o","p","q","r","s","t","u","v","w","x","y","z">>

IsUpper(c) == \E i \in DOMAIN UpperChars : UpperChars[i] = c
IsLower(c) == \E i \in DOMAIN LowerChars : LowerChars[i] = c
ToLowerChar(c) ==
    IF IsUpper(c) THEN LowerChars[CHOOSE i \in DOMAIN UpperChars : UpperChars[i] = c] ELSE c
ToUpperChar(c) ==
    IF IsLower(c) THEN UpperChars[CHOOSE i \in DOMAIN LowerChars : LowerChars[i] = c] ELSE c

\* str::to_lowercase
to_lowercase(s) == [i \in DOMAIN s |-> ToLowerChar(s[i])]

\* convert_case word boundaries: lower followed by upper, and the end of an
\* acronym (upper followed by upper-lower).
WordStart(s, i) ==
    \/ i = 1
    \/ /\ i > 1
       /\ IsUpper(s[i])
       /\ \/ IsLower(s[i-1])
          \/ IsUpper(s[i-1]) /\ i < Len(s) /\ IsLower(s[i+1])

RECURSIVE SnakeFrom(_, _)
SnakeFrom(s, i) ==
    IF i > Len(s) THEN <<>>
    ELSE (IF i > 1 /\ WordStart(s, i) THEN <<"_">> ELSE <<>>)
         \o <<ToLowerChar(s[i])>> \o SnakeFrom(s, i + 1)

\* to_case(Case::Snake)
ToSnake(s) == SnakeFrom(s, 1)

\* to_case(Case::Pascal)
ToPascal(s) ==
    [i \in DOMAIN s |-> IF WordStart(s, i) THEN ToUpperChar(s[i]) ELSE ToLowerChar(s[i])]

(***************************************************************************)
(* The feature schema given to define_features!:                           *)
(*     enum Features { Foo => false, Bar => true, UseQuic => false }       *)
(***************************************************************************)
Foo == <<"F","o","o">>
Bar == <<"B","a","r">>
UseQuic == <<"U","s","e","Q","u","i","c">>

Features ==
    << [name |-> Foo, default |-> FALSE],
       [name |-> Bar, default |-> TRUE],
       [name |-> UseQuic, default |-> FALSE] >>

\* Features::names
Variants == {ToPascal(Features[i].name) : i \in DOMAIN Features}
FieldNames == {ToSnake(Features[i].name) : i \in DOMAIN Features}

DefaultPrefix == <<"d","e","f","a","u","l","t","_">>

\* Features::default_fns: the per-flag functions default_<snake name>
default_fns ==
    [fn \in {DefaultPrefix \o ToSnake(Features[i].name) : i \in DOMAIN Features} |->
        LET i == CHOOSE j \in DOMAIN Features : DefaultPrefix \o ToSnake(Features[j].name) = fn
        IN  Features[i].default]

\* Features::default_impl: every field from Self::default_<field>()
default_impl == [f \in FieldNames |-> default_fns[DefaultPrefix \o f]]

\* AsFeature::as_feature: match on the variant, read the snake-case field
as_feature(state, variant) ==
    LET i == CHOOSE j \in DOMAIN Features : ToPascal(Features[j].name) = variant
    IN  state[ToSnake(Features[i].name)]

\* generate_call_field_default_fn: the function name the fallback calls
generate_call_field_default_fn(variant) == DefaultPrefix \o to_lowercase(variant)

\* The emitted call <State>::default_x() compiles only if define_features!
\* generated a function of that name.
Resolves(variant) == generate_call_field_default_fn(variant) \in DOMAIN default_fns

(***************************************************************************)
(* Trackers and the states they return.                                    *)
(***************************************************************************)
StateTypes == {"FeaturesState", "Features2State"}

\* get_associated_state_path: <Enum>State of the enum the variant belongs to
AssociatedState == "FeaturesState"

\* tracker.rs:92 NoTracker, the initial referent of GLOBAL_TRACKER
NO_TRACKER == [id |-> 0, ty |-> "NoTracker"]
\* a reference read while it was being written: neither the old nor the new one
TORN == [id |-> 0, ty |-> "Torn"]
\* the slot has not been read by the current call
UNREAD == [id |-> 0, ty |-> "Unread"]

\* A tracker built by the application: ConspiracyFeatureTracker<T, F> whose
\* state type is ty; id tells the boxed trackers of different calls apart.
Provider(id, ty) == [id |-> id, ty |-> ty]
IsProvider(tr) == tr.ty \in StateTypes

InverseDefaults == [f \in FieldNames |-> ~default_impl[f]]
SnapshotValues == {default_impl, InverseDefaults}

NoState == [ty |-> "none", val |-> default_impl]

\* the call did not return: it panicked, or its behaviour is undefined
PANICKED == [ty |-> "panic", val |-> default_impl]
UNDEFINED == [ty |-> "undefined", val |-> default_impl]

\* ConspiracyFeatureTracker::static_feature_state: the snapshot the fetcher
\* of the tracker returns now, as Arc<dyn Any> of the tracker's state type
Snapshots(tr) == {[ty |-> tr.ty, val |-> v] : v \in SnapshotValues}

\* variant: the placeholder answers with the compiled defaults instead of panicking
static_feature_state_placeholder_defaults(tr) ==
    IF IsProvider(tr) THEN Snapshots(tr)
    ELSE IF tr = NO_TRACKER THEN {[ty |-> AssociatedState, val |-> default_impl]}
    ELSE {UNDEFINED}

\* FeatureTracker::static_feature_state on the referent tr: every value the
\* call may return.  NoTracker panics (tracker.rs:96-100).
static_feature_state(tr) ==
    IF IsProvider(tr) THEN Snapshots(tr)
    ELSE IF tr = NO_TRACKER THEN {PANICKED}
    ELSE {UNDEFINED}

\* variant: the registration does not validate the state type
IsUnvalidated(any, T) == TRUE

\* <dyn Any>::is::<T>
Is(any, T) == any.ty = T

R(tag, val) == [tag |-> tag, val |-> val]
NoResult == R("none", FALSE)

\* variant: an unchecked cast
DowncastUnchecked(any, T) == "Ok"

\* Arc<dyn Any>::downcast::<T> with map_err to BadCastError
Downcast(any, T) == IF any.ty = T THEN "Ok" ELSE "BadCast"

\* variant: a test for "not yet initialized" instead of the exchange on `current`
CompareExchangeNotInitialized(value, current, new) ==
    IF value # INITIALIZED THEN [ok |-> TRUE, value |-> new]
                           ELSE [ok |-> FALSE, value |-> value]

\* AtomicUsize::compare_exchange(current, new)
CompareExchange(value, current, new) ==
    IF value = current THEN [ok |-> TRUE, value |-> new]
                       ELSE [ok |-> FALSE, value |-> value]

\* variant: any state but UNINITIALIZED counts as set
global_tracker_set_started(loaded) == loaded # UNINITIALIZED

\* global_tracker_set: the comparison made on the loaded value
global_tracker_set(loaded) == loaded = INITIALIZED

(***************************************************************************)
(* config_struct!, conspiracy_macros/src/config.rs.                        *)
(*                                                                         *)
(* A schema is the parsed NestableStruct; the macro's output is the        *)
(* sequence of items it emits, in emission order.  The emitted functions   *)
(* are executed further below by looking them up in that sequence, so a    *)
(* conversion does what the emitted code does.                             *)
(***************************************************************************)
wrap_in_arc(ty) == "Arc<" \o ty \o ">"

\* NestableField::Field and NestableField::Struct, as NestableField::parse builds them
Field(tags, ident, ty) ==
    [kind |-> "Field", attrs |-> tags, ident |-> ident, ty |-> ty, nested |-> <<>>]
StructField(tags, ident, nested) ==
    [kind |-> "Struct", attrs |-> tags, ident |-> ident, ty |-> wrap_in_arc(nested.ty),
     nested |-> <<nested>>]
NestableStruct(ty, fields) == [ty |-> ty, fields |-> fields]
Nested(field) == field.nested[1]

compact_ty_name(ty) == "Compact" \o ty

\* one emitted item: a struct definition, an inherent function or a trait impl
Item(kind, self, name, target, derive, body) ==
    [kind |-> kind, self |-> self, name |-> name, target |-> target,
     derive |-> derive, body |-> body]

Derives == {"Clone", "PartialEq", "RestartRequired", "Serialize", "Deserialize"}

RECURSIVE generate_compact_struct(_), CompactNested(_, _)
\* the recursion of the map closure over input.fields, in field order
CompactNested(fields, i) ==
    IF i > Len(fields) THEN <<>>
    ELSE (IF fields[i].kind = "Struct"
          THEN generate_compact_struct(Nested(fields[i])) ELSE <<>>)
         \o CompactNested(fields, i + 1)

generate_compact_struct(input) ==
    LET compact_ty == compact_ty_name(input.ty)
        fields == [i \in DOMAIN input.fields |->
                     [attrs |-> {}, ident |-> input.fields[i].ident,
                      ty |-> IF input.fields[i].kind = "Struct"
                             THEN compact_ty_name(Nested(input.fields[i]).ty)
                             ELSE input.fields[i].ty]]
        arcified_fields == [i \in DOMAIN input.fields |->
                     [ident |-> input.fields[i].ident,
                      via |-> IF input.fields[i].kind = "Struct" THEN "arcify" ELSE "move"]]
    IN CompactNested(input.fields, 1)
       \o << Item("struct", compact_ty, "", "", {}, fields),
             Item("fn", compact_ty, "arcify", input.ty, {}, arcified_fields) >>

\* impl AsField<child_ty> for lineage[0].1 { self.<idents of lineage>.clone() }
impl_as_field(lineage, child_ty) ==
    Item("impl", lineage[1].ty, "AsField", child_ty, {},
         [i \in DOMAIN lineage |-> lineage[i].ident])

RECURSIVE AsFieldFrom(_, _, _)
\* for i in (0..lineage.len()).rev()
AsFieldFrom(lineage, nested, i) ==
    IF i < 1 THEN <<>>
    ELSE <<impl_as_field(SubSeq(lineage, i, Len(lineage)), nested.ty)>>
         \o AsFieldFrom(lineage, nested, i - 1)

impl_as_field_for_lineage(lineage, nested) == AsFieldFrom(lineage, nested, Len(lineage))

RECURSIVE generate_config_structs(_, _), ConfigNested(_, _, _)
ConfigNested(input, lineage, i) ==
    IF i > Len(input.fields) THEN <<>>
    ELSE (IF input.fields[i].kind = "Struct"
          THEN LET pushed == Append(lineage, [ident |-> input.fields[i].ident, ty |-> input.ty])
               IN impl_as_field_for_lineage(pushed, Nested(input.fields[i]))
                  \o generate_config_structs(Nested(input.fields[i]), pushed)
          ELSE <<>>)
         \o ConfigNested(input, lineage, i + 1)

generate_config_structs(input, lineage) ==
    LET fields == [i \in DOMAIN input.fields |->
                     [attrs |-> input.fields[i].attrs, ident |-> input.fields[i].ident,
                      ty |-> input.fields[i].ty]]
        compacted_fields == [i \in DOMAIN input.fields |->
                     [ident |-> input.fields[i].ident,
                      via |-> IF input.fields[i].kind = "Struct" THEN "compact" ELSE "move"]]
    IN ConfigNested(input, lineage, 1)
       \o << Item("struct", input.ty, "", "", Derives, fields),
             Item("fn", input.ty, "compact", compact_ty_name(input.ty), {}, compacted_fields) >>

\* the macro has no error path of its own past parsing
config_struct(input) ==
    [error |-> FALSE,
     items |-> generate_compact_struct(input) \o generate_config_structs(input, <<>>)]

(***************************************************************************)
(* #[derive(RestartRequired)], config.rs:14-88.  The derive is handed the  *)
(* struct item emitted at config.rs:195-201 and parses it as a             *)
(* NestableStruct: a field of that item has a type, never an inline struct *)
(* declaration, so NestableField::parse yields NestableField::Field.       *)
(***************************************************************************)
ParseItem(item) ==
    NestableStruct(item.self,
        [i \in DOMAIN item.body |-> Field(item.body[i].attrs, item.body[i].ident, item.body[i].ty)])

\* attr.path().is_ident("restart")
has_restart_attr(field) == "restart" \in field.attrs

RECURSIVE build_restart_comparison_for_struct(_, _), RestartFrom(_, _, _)
RestartFrom(lineage, item, i) ==
    IF i > Len(item.fields) THEN <<>>
    ELSE LET field == item.fields[i]
             own == IF has_restart_attr(field) THEN <<Append(lineage, field.ident)>> ELSE <<>>
         IN own
            \o (IF field.kind = "Struct"
                THEN build_restart_comparison_for_struct(Append(lineage, field.ident), Nested(field))
                ELSE <<>>)
            \o RestartFrom(lineage, item, i + 1)

build_restart_comparison_for_struct(lineage, item) == RestartFrom(lineage, item, 1)

\* the field paths compared, joined by ||; none means the body `false`
build_restart_comparison(input) == build_restart_comparison_for_struct(<<>>, input)

restart_required(item) ==
    Item("impl", item.self, "RestartRequired", "", {}, build_restart_comparison(ParseItem(item)))

\* the items of the crate once the derives of the emitted structs have run
RECURSIVE ExpandDerives(_)
ExpandDerives(items) ==
    IF items = <<>> THEN <<>>
    ELSE <<Head(items)>>
         \o (IF Head(items).kind = "struct" /\ "RestartRequired" \in Head(items).derive
             THEN <<restart_required(Head(items))>> ELSE <<>>)
         \o ExpandDerives(Tail(items))

(***************************************************************************)
(* Values of the emitted types.  A field holds a leaf value or an Arc: a   *)
(* pointer and the node it points to.                                      *)
(***************************************************************************)
NoPtr == <<0, <<>>>>
Leaf(v) == [arc |-> FALSE, ptr |-> NoPtr, val |-> v]
ArcNew(p, node) == [arc |-> TRUE, ptr |-> p, val |-> node]

\* the emitted items for type ty with the given kind and name
Emitted(items, kind, ty, name) ==
    SelectSeq(items, LAMBDA it : it.kind = kind /\ it.self = ty /\ it.name = name)

\* a struct expression: every field named in body, with the value its initialiser gives
FieldMap(body, value(_)) ==
    [id \in {body[i].ident : i \in DOMAIN body} |->
        value(CHOOSE i \in DOMAIN body : body[i].ident = id)]

RECURSIVE compact(_, _)
\* ident: (*self.ident).clone().compact()   |   ident: self.ident
compact(items, x) ==
    LET f == Emitted(items, "fn", x.ty, "compact")[1] IN
    [ty |-> f.target,
     f |-> FieldMap(f.body, LAMBDA i :
              IF f.body[i].via = "compact"
              THEN Leaf(compact(items, x.f[f.body[i].ident].val))
              ELSE x.f[f.body[i].ident])]

RECURSIVE arcify(_, _, _)
\* variant: the leaves of the frozen node are not taken from the compact value
arcify_leaves_defaulted(items, c, p) ==
    LET f == Emitted(items, "fn", c.ty, "arcify")[1] IN
    ArcNew(p,
        [ty |-> f.target,
         f |-> FieldMap(f.body, LAMBDA i :
                  IF f.body[i].via = "arcify"
                  THEN arcify(items, c.f[f.body[i].ident].val,
                              <<p[1], Append(p[2], f.body[i].ident)>>)
                  ELSE Leaf(0))])

\* Arc::new(Ty { ident: self.ident.arcify() | ident: self.ident }); the
\* allocation made for the node at field path p during call number e is <<e, p>>
arcify(items, c, p) ==
    LET f == Emitted(items, "fn", c.ty, "arcify")[1] IN
    ArcNew(p,
        [ty |-> f.target,
         f |-> FieldMap(f.body, LAMBDA i :
                  IF f.body[i].via = "arcify"
                  THEN arcify(items, c.f[f.body[i].ident].val,
                              <<p[1], Append(p[2], f.body[i].ident)>>)
                  ELSE c.f[f.body[i].ident])])

RECURSIVE Walk(_, _)
\* self.a.b.c : the field reached through the Arcs on the way
Walk(x, path) ==
    IF Len(path) = 1 THEN x.f[path[1]]
    ELSE Walk(x.f[path[1]].val, Tail(path))

\* <A as AsField<B>>::share(&a) = self.<path>.clone(): the impls that apply
AsFieldImpls(items, A, B) ==
    SelectSeq(items, LAMBDA it : it.kind = "impl" /\ it.name = "AsField"
                                 /\ it.self = A /\ it.target = B)

\* variant: the projection clones the data into a new allocation
share_deep_copy(items, a, B) ==
    LET got == Walk(a, AsFieldImpls(items, a.ty, B)[1].body) IN
    ArcNew(<<got.ptr[1] + 1, got.ptr[2]>>, got.val)

share(items, a, B) == Walk(a, AsFieldImpls(items, a.ty, B)[1].body)

RECURSIVE eq(_, _)
\* #[derive(PartialEq)] on the emitted struct; Arc<T> compares the pointees
eq(a, b) ==
    /\ a.ty = b.ty
    /\ \A id \in DOMAIN a.f :
          IF a.f[id].arc THEN eq(a.f[id].val, b.f[id].val)
          ELSE a.f[id].val = b.f[id].val

\* self.<path> != other.<path>
Differs(s1, s2, path) ==
    LET l == Walk(s1, path)
        r == Walk(s2, path)
    IN IF l.arc THEN ~eq(l.val, r.val) ELSE l.val # r.val

\* the emitted impl RestartRequired: #(#comparisons)||* , or false
restart_required_run(items, s1, s2) ==
    LET f == Emitted(items, "impl", s1.ty, "RestartRequired")[1] IN
    \E i \in DOMAIN f.body : Differs(s1, s2, f.body[i])

(***************************************************************************)
(* State.                                                                  *)
(***************************************************************************)
VARIABLES
    GLOBAL_TRACKER_INIT, \* the AtomicUsize
    GLOBAL_TRACKER,      \* the static mut reference
    cfg_test,            \* whether the build is a #[cfg(test)] build
    pc,                  \* position of each thread in its current call
    op,                  \* the call each thread is making
    pre,                 \* referent of GLOBAL_TRACKER when the call began
    seen,                \* value of GLOBAL_TRACKER_INIT loaded by the guard
    after,               \* the call began after the winning registration returned
    ret,                 \* the call that returned last, and what it did
    nRead,               \* reads begun so far
    casWon, casLost,     \* outcomes of the compare_exchange so far
    slotWrites,          \* assignments to GLOBAL_TRACKER so far
    winner,              \* the call that won the exchange, and what it returned
    rejected,            \* the last call the thread returned from lost the exchange
                         \* to the registration that is still in progress
    \* a program that declares a config schema and converts its snapshots
    schema,              \* the declaration handed to config_struct!
    emitted,             \* what the macro and the derives of its output emitted
    config,              \* the baseline snapshot
    scratch,             \* the compact value being edited
    other_config,        \* the snapshot frozen from the compact value
    out,                 \* the last projection or comparison, and its result
    \* a program that reads a parent fetcher and a sub-fetcher derived from it
    counter,             \* GatedFetcher::counter of each fetcher instance
    cut_over,            \* GatedFetcher::cut_over
    log,                 \* the calls of latest_snapshot made so far, with their results
    inflight,            \* the call of latest_snapshot each thread is inside of
    \* a program that builds feature states
    attrs,               \* the attributes written on each flag of define_features!
    builder,             \* the builder in use
    last,                \* the value of the last setter call for each flag
    states,              \* the states built so far
    rr                   \* the last result of restart_required on two built states

trackerVars == <<GLOBAL_TRACKER_INIT, GLOBAL_TRACKER, cfg_test, pc, op, pre, seen,
                 after, ret, nRead, casWon, casLost, slotWrites, winner, rejected>>
configVars == <<schema, emitted, config, scratch, other_config, out>>
fetchVars == <<counter, cut_over, log, inflight>>
featureVars == <<attrs, builder, last, states, rr>>

vars == <<trackerVars, configVars, fetchVars, featureVars>>

\* what a program that only uses the feature tracker leaves alone
others == <<configVars, fetchVars, featureVars>>

shared == <<GLOBAL_TRACKER_INIT, GLOBAL_TRACKER>>
counters == <<nRead, casWon, casLost, slotWrites>>

NoOp == [kind |-> "none", T |-> "none", flag |-> <<>>, v |-> FALSE, prov |-> NO_TRACKER]
NoWinner == [prov |-> NO_TRACKER, T |-> "none", res |-> "none"]
NoReturn == [op |-> NoOp, after |-> FALSE, seen |-> -1, tracker |-> UNREAD,
             got |-> NoState, calls |-> 0, result |-> NoResult, rejected |-> FALSE]

ReadKinds == {"try_feature_state", "feature_state_unchecked"}
MacroKinds == {"feature_enabled", "feature_enabled_or_default"}
OrKinds == {"feature_enabled_or"}

Registered == winner.res # "none"

\* the program declares no config schema
NoConfig ==
    /\ schema = <<>> /\ emitted = <<>> /\ config = <<>> /\ scratch = <<>>
    /\ other_config = <<>> /\ out = <<>>

\* the program creates no fetcher
NoFetcher ==
    /\ counter = <<>> /\ cut_over = 0 /\ log = <<>> /\ inflight = <<>>

\* the program builds no feature state
NoBuilder ==
    /\ attrs = <<>> /\ builder = <<>> /\ last = <<>> /\ states = <<>> /\ rr = <<>>

InitTracker ==
    /\ GLOBAL_TRACKER_INIT = UNINITIALIZED
    /\ GLOBAL_TRACKER = NO_TRACKER
    /\ pc = [t \in Threads |-> "idle"]
    /\ op = [t \in Threads |-> NoOp]
    /\ pre = [t \in Threads |-> NO_TRACKER]
    /\ seen = [t \in Threads |-> -1]
    /\ after = [t \in Threads |-> FALSE]
    /\ ret = NoReturn
    /\ nRead = 0 /\ casWon = 0 /\ casLost = 0 /\ slotWrites = 0
    /\ winner = NoWinner
    /\ rejected = [t \in Threads |-> FALSE]

Init ==
    /\ InitTracker
    /\ cfg_test \in BOOLEAN
    /\ NoConfig /\ NoFetcher /\ NoBuilder

\* thread t enters the call o and stops before its first access to a static
Enter(t, o, first) ==
    /\ pc[t] = "idle"
    /\ pc' = [pc EXCEPT ![t] = first]
    /\ op' = [op EXCEPT ![t] = o]
    /\ pre' = [pre EXCEPT ![t] = GLOBAL_TRACKER]
    /\ seen' = [seen EXCEPT ![t] = -1]
    /\ after' = [after EXCEPT ![t] = Registered]

\* the call of thread t returns r, having loaded `loaded` from
\* GLOBAL_TRACKER_INIT, read tr from GLOBAL_TRACKER and obtained s from
\* n invocations of static_feature_state
Return(t, loaded, tr, s, n, r) ==
    /\ ret' = [op |-> op[t], after |-> after[t], seen |-> loaded, tracker |-> tr,
               got |-> s, calls |-> n, result |-> r, rejected |-> rejected[t]]
    /\ rejected' = [rejected EXCEPT ![t] = FALSE]
    /\ pc' = [pc EXCEPT ![t] = "idle"]
    /\ op' = [op EXCEPT ![t] = NoOp]
    /\ pre' = [pre EXCEPT ![t] = NO_TRACKER]
    /\ seen' = [seen EXCEPT ![t] = -1]
    /\ after' = [after EXCEPT ![t] = FALSE]

(***************************************************************************)
(* set_global_tracker::<T, C>(tracker), feature_control.rs:275-328         *)
(***************************************************************************)
\* variant: a call that finds the registration in progress waits for its end
SetGlobalTrackerAwaitingWinner(t) ==
    \E ty \in StateTypes, T \in StateTypes :
        LET o == [NoOp EXCEPT !.kind = "set_global_tracker", !.T = T,
                              !.prov = Provider(casWon + casLost + 1, ty)]
            r == CompareExchange(GLOBAL_TRACKER_INIT, UNINITIALIZED, INITIALIZING)
        IN
        /\ pc[t] = "idle"
        /\ casWon + casLost < MaxSetCalls
        /\ GLOBAL_TRACKER_INIT # INITIALIZING
        /\ GLOBAL_TRACKER_INIT' = r.value
        /\ IF r.ok
           THEN /\ Enter(t, o, "store_slot")
                /\ casWon' = casWon + 1
                /\ winner' = [prov |-> o.prov, T |-> T, res |-> "none"]
                /\ UNCHANGED <<ret, casLost, rejected>>
           ELSE /\ ret' = [NoReturn EXCEPT !.op = o, !.after = Registered,
                                           !.result = R("GlobalTrackerAlreadySet", FALSE)]
                /\ casLost' = casLost + 1
                /\ rejected' = [rejected EXCEPT ![t] = (r.value = INITIALIZING)]
                /\ UNCHANGED <<pc, op, pre, seen, after, casWon, winner>>
        /\ UNCHANGED <<GLOBAL_TRACKER, cfg_test, nRead, slotWrites>>
        /\ UNCHANGED others

\* The call up to the compare_exchange of set_global_tracker_from_ref: the
\* tracker is boxed and the exchange attempted; the Err of a loser is
\* propagated by `?` out of set_global_tracker.
SetGlobalTracker(t) ==
    \E ty \in StateTypes, T \in StateTypes :
        LET o == [NoOp EXCEPT !.kind = "set_global_tracker", !.T = T,
                              !.prov = Provider(casWon + casLost + 1, ty)]
            r == CompareExchange(GLOBAL_TRACKER_INIT, UNINITIALIZED, INITIALIZING)
        IN
        /\ pc[t] = "idle"
        /\ casWon + casLost < MaxSetCalls
        /\ GLOBAL_TRACKER_INIT' = r.value
        /\ IF r.ok
           THEN /\ Enter(t, o, "store_slot")
                /\ casWon' = casWon + 1
                /\ winner' = [prov |-> o.prov, T |-> T, res |-> "none"]
                /\ UNCHANGED <<ret, casLost, rejected>>
           ELSE /\ ret' = [NoReturn EXCEPT !.op = o, !.after = Registered,
                                           !.result = R("GlobalTrackerAlreadySet", FALSE)]
                /\ casLost' = casLost + 1
                /\ rejected' = [rejected EXCEPT ![t] = (r.value = INITIALIZING)]
                /\ UNCHANGED <<pc, op, pre, seen, after, casWon, winner>>
        /\ UNCHANGED <<GLOBAL_TRACKER, cfg_test, nRead, slotWrites>>
        /\ UNCHANGED others

\* variant: the winner does not publish its tracker
StoreSlotSkipped(t) ==
    /\ pc[t] = "store_slot"
    /\ pc' = [pc EXCEPT ![t] = "store_init"]
    /\ UNCHANGED <<shared, cfg_test, op, pre, seen, after, ret, counters, winner>>
    /\ UNCHANGED <<rejected, others>>

\* GLOBAL_TRACKER = &**tracker
StoreSlot(t) ==
    /\ pc[t] = "store_slot"
    /\ GLOBAL_TRACKER' = op[t].prov
    /\ slotWrites' = slotWrites + 1
    /\ pc' = [pc EXCEPT ![t] = "store_init"]
    /\ UNCHANGED <<GLOBAL_TRACKER_INIT, cfg_test, op, pre, seen, after, ret,
                   nRead, casWon, casLost, winner>>
    /\ UNCHANGED <<rejected, others>>

\* variant: the winner stores UNINITIALIZED back
StoreInitReset(t) ==
    /\ pc[t] = "store_init"
    /\ GLOBAL_TRACKER_INIT' = UNINITIALIZED
    /\ pc' = [pc EXCEPT ![t] = "probe"]
    /\ UNCHANGED <<GLOBAL_TRACKER, cfg_test, op, pre, seen, after, ret, counters, winner>>
    /\ rejected' = [u \in Threads |-> FALSE]
    /\ UNCHANGED others

\* GLOBAL_TRACKER_INIT.store(INITIALIZED)
StoreInit(t) ==
    /\ pc[t] = "store_init"
    /\ GLOBAL_TRACKER_INIT' = INITIALIZED
    /\ pc' = [pc EXCEPT ![t] = "probe"]
    /\ UNCHANGED <<GLOBAL_TRACKER, cfg_test, op, pre, seen, after, ret, counters, winner>>
    /\ rejected' = [u \in Threads |-> FALSE]
    /\ UNCHANGED others

\* variant: a registration whose type probe fails is taken back
ProbeRollingBack(t) ==
    /\ pc[t] = "probe"
    /\ \E s \in static_feature_state(GLOBAL_TRACKER) :
        LET r == IF s = PANICKED THEN "Panic"
                 ELSE IF s = UNDEFINED THEN "UB"
                 ELSE IF Is(s, op[t].T) THEN "Ok" ELSE "BadCast" IN
        /\ Return(t, -1, GLOBAL_TRACKER, s, 1, R(r, FALSE))
        /\ winner' = [winner EXCEPT !.res = r]
        /\ IF r = "BadCast"
           THEN GLOBAL_TRACKER_INIT' = UNINITIALIZED /\ GLOBAL_TRACKER' = NO_TRACKER
           ELSE UNCHANGED shared
    /\ UNCHANGED <<cfg_test, counters>>
    /\ UNCHANGED others

\* back in set_global_tracker: GLOBAL_TRACKER.static_feature_state().is::<T>()
Probe(t) ==
    /\ pc[t] = "probe"
    /\ \E s \in static_feature_state(GLOBAL_TRACKER) :
        LET r == IF s = PANICKED THEN "Panic"
                 ELSE IF s = UNDEFINED THEN "UB"
                 ELSE IF Is(s, op[t].T) THEN "Ok" ELSE "BadCast" IN
        /\ Return(t, -1, GLOBAL_TRACKER, s, 1, R(r, FALSE))
        /\ winner' = [winner EXCEPT !.res = r]
    /\ UNCHANGED <<shared, cfg_test, counters>>
    /\ UNCHANGED others

(***************************************************************************)
(* Reads, feature_control.rs:359-386 and the macro expansions              *)
(* conspiracy_macros/src/feature_control.rs:279-384                        *)
(***************************************************************************)
\* use_default_in_cfg_test / feature_enabled_or_default: does the expansion
\* go through try_feature_state (guard first) or feature_state_unchecked
Checked(o) ==
    \/ o.kind \in {"try_feature_state", "feature_enabled_or_default", "feature_enabled_or"}
    \/ o.kind = "feature_enabled" /\ cfg_test

\* The expansion contains the call of the flag's default function exactly on
\* the checked macro paths; it builds only if that function exists.
Compiles(o) == (o.kind \in MacroKinds /\ Checked(o)) => Resolves(o.flag)

\* try_feature_state::<T>() and feature_state_unchecked::<T>() called directly
BeginRead(t) ==
    \E k \in ReadKinds, T \in StateTypes :
        LET o == [NoOp EXCEPT !.kind = k, !.T = T] IN
        /\ nRead < MaxReads
        /\ Enter(t, o, IF Checked(o) THEN "guard" ELSE "inner")
        /\ nRead' = nRead + 1
        /\ UNCHANGED <<shared, cfg_test, ret, casWon, casLost, slotWrites, winner>>
        /\ UNCHANGED <<rejected, others>>

\* feature_enabled!(F) and feature_enabled_or_default!(F)
BeginMacro(t) ==
    \E k \in MacroKinds, F \in Variants :
        LET o == [NoOp EXCEPT !.kind = k, !.T = AssociatedState, !.flag = F] IN
        /\ nRead < MaxReads
        /\ Compiles(o)
        /\ Enter(t, o, IF Checked(o) THEN "guard" ELSE "inner")
        /\ nRead' = nRead + 1
        /\ UNCHANGED <<shared, cfg_test, ret, casWon, casLost, slotWrites, winner>>
        /\ UNCHANGED <<rejected, others>>

\* A macro invocation whose expansion does not build: rustc rejects the call
\* of the missing default function and nothing runs.
RejectMacro(t) ==
    \E k \in MacroKinds, F \in Variants :
        LET o == [NoOp EXCEPT !.kind = k, !.T = AssociatedState, !.flag = F] IN
        /\ nRead < MaxReads
        /\ pc[t] = "idle"
        /\ ~Compiles(o)
        /\ ret' = [NoReturn EXCEPT !.op = o, !.after = Registered,
                                   !.result = R("CompileError", FALSE)]
        /\ nRead' = nRead + 1
        /\ UNCHANGED <<shared, cfg_test, pc, op, pre, seen, after,
                       casWon, casLost, slotWrites, winner>>
        /\ UNCHANGED <<rejected, others>>

\* feature_enabled_or!(F, v): the expansion matches on try_feature_state and
\* its arm `Err(_) => v` takes every error
BeginOr(t) ==
    \E F \in Variants, v \in BOOLEAN :
        LET o == [NoOp EXCEPT !.kind = "feature_enabled_or", !.T = AssociatedState,
                              !.flag = F, !.v = v] IN
        /\ nRead < MaxReads
        /\ Enter(t, o, "guard")
        /\ nRead' = nRead + 1
        /\ UNCHANGED <<shared, cfg_test, ret, casWon, casLost, slotWrites, winner>>
        /\ UNCHANGED <<rejected, others>>

\* the value the fallback arm yields: `Err(_) => <State>::default_x()` or
\* `Err(_) => v`
Fallback(o) ==
    IF o.kind \in MacroKinds
    THEN R("Value", default_fns[generate_call_field_default_fn(o.flag)])
    ELSE IF o.kind \in OrKinds THEN R("Value", o.v)
    ELSE R("NoGlobalTracker", FALSE)

\* try_feature_state: if global_tracker_set() { .. } else { Err(NoGlobalTracker) }
Guard(t) ==
    /\ pc[t] = "guard"
    /\ IF global_tracker_set(GLOBAL_TRACKER_INIT)
       THEN /\ pc' = [pc EXCEPT ![t] = "inner"]
            /\ seen' = [seen EXCEPT ![t] = GLOBAL_TRACKER_INIT]
            /\ UNCHANGED <<op, pre, after, ret, rejected>>
       ELSE Return(t, GLOBAL_TRACKER_INIT, UNREAD, NoState, 0, Fallback(op[t]))
    /\ UNCHANGED <<shared, cfg_test, counters, winner>>
    /\ UNCHANGED others

\* The plain load of GLOBAL_TRACKER in feature_state_inner.  It is ordered
\* after the writer's store only when the call made an acquire load of
\* GLOBAL_TRACKER_INIT that returned INITIALIZED.  Otherwise nothing orders it:
\* it may be satisfied with any referent the slot had since the call began,
\* and if the slot was written meanwhile with a mix of both.
SlotLoad(t) ==
    IF Checked(op[t]) /\ IsAcquire(GuardLoadOrdering)
    THEN {GLOBAL_TRACKER}
    ELSE {pre[t], GLOBAL_TRACKER} \cup (IF pre[t] # GLOBAL_TRACKER THEN {TORN} ELSE {})

\* Result<Arc<T>, _>::expect("Bad cast")
Expect(tag) == IF tag = "Ok" THEN "Ok" ELSE "Panic"

\* what the caller of feature_state_inner makes of its result
Outcome(o, tag, s) ==
    IF o.kind = "try_feature_state" THEN R(tag, FALSE)
    ELSE IF o.kind = "feature_state_unchecked" THEN R(Expect(tag), FALSE)
    ELSE IF Checked(o)
         THEN IF tag = "Ok" THEN R("Value", as_feature(s.val, o.flag)) ELSE Fallback(o)
         ELSE IF Expect(tag) = "Ok" THEN R("Value", as_feature(s.val, o.flag))
                                    ELSE R("Panic", FALSE)

\* variant: the state is fetched once to test its type and again for the result
InnerValidatingFirst(t) ==
    /\ pc[t] = "inner"
    /\ \E tr \in SlotLoad(t) :
       \E first \in static_feature_state(tr), s \in static_feature_state(tr) :
          Return(t, seen[t], tr, s, 2,
                 IF s = PANICKED THEN R("Panic", FALSE)
                 ELSE IF s = UNDEFINED THEN R("UB", FALSE)
                 ELSE Outcome(op[t], Downcast(first, op[t].T), s))
    /\ UNCHANGED <<shared, cfg_test, counters, winner>>
    /\ UNCHANGED others

\* feature_state_inner: GLOBAL_TRACKER.static_feature_state(), downcast::<T>,
\* and the return through its caller.  A torn reference is undefined behaviour.
Inner(t) ==
    /\ pc[t] = "inner"
    /\ \E tr \in SlotLoad(t) :
       \E s \in static_feature_state(tr) :
          Return(t, seen[t], tr, s, 1,
                 IF s = PANICKED THEN R("Panic", FALSE)
                 ELSE IF s = UNDEFINED THEN R("UB", FALSE)
                 ELSE Outcome(op[t], Downcast(s, op[t].T), s))
    /\ UNCHANGED <<shared, cfg_test, counters, winner>>
    /\ UNCHANGED others

Next ==
    \E t \in Threads :
        \/ SetGlobalTracker(t)
        \/ StoreSlot(t)
        \/ StoreInit(t)
        \/ Probe(t)
        \/ BeginRead(t)
        \/ BeginMacro(t)
        \/ RejectMacro(t)
        \/ Guard(t)
        \/ Inner(t)

Spec == Init /\ [][Next]_vars

\* registrations racing with callers of feature_enabled_or!
NextOr ==
    \E t \in Threads :
        \/ SetGlobalTracker(t)
        \/ StoreSlot(t)
        \/ StoreInit(t)
        \/ Probe(t)
        \/ BeginOr(t)
        \/ Guard(t)
        \/ Inner(t)

SpecOr == Init /\ [][NextOr]_vars

(***************************************************************************)
(* A program that declares a config schema with config_struct!, builds a   *)
(* snapshot of it and works with it the way the tests of                   *)
(* conspiracy/tests/config_generation.rs do: compact(), edits of the       *)
(* compact value, arcify(), restart_required() and share().                *)
(***************************************************************************)
Restart == {"restart"}
TagSets == {{}, Restart}

\* struct ConfigA { foo: u32, bar: struct <tyB> { foo: u32, baz: struct <tyC> { foo: u32 } } }
\* with the attributes tg[1..5] on the five fields, in declaration order
Declaration(tg, tyB, tyC) ==
    NestableStruct("ConfigA", <<
        Field(tg[1], "foo", "u32"),
        StructField(tg[2], "bar", NestableStruct(tyB, <<
            Field(tg[3], "foo", "u32"),
            StructField(tg[4], "baz", NestableStruct(tyC, <<
                Field(tg[5], "foo", "u32") >>)) >>)) >>)

NoTags == [i \in 1..5 |-> {}]

\* every tagging of the schema with distinct types, and the untagged schema
\* with a type identifier used twice
Schemas ==
    {Declaration(tg, "ConfigB", "ConfigC") : tg \in [1..5 -> TagSets]}
    \cup {Declaration(NoTags, "ConfigB", "ConfigB"), Declaration(NoTags, "ConfigB", "ConfigA")}

RECURSIVE TypesOf(_), TypesFrom(_, _)
TypesFrom(fields, i) ==
    IF i > Len(fields) THEN <<>>
    ELSE (IF fields[i].kind = "Struct" THEN TypesOf(Nested(fields[i])) ELSE <<>>)
         \o TypesFrom(fields, i + 1)
\* the type identifiers of a schema, one entry per node
TypesOf(node) == <<node.ty>> \o TypesFrom(node.fields, 1)

UniqueTypes(node) ==
    \A i, j \in DOMAIN TypesOf(node) : TypesOf(node)[i] = TypesOf(node)[j] => i = j

\* rustc accepts the emitted items: no type, function or impl is defined twice
CrateBuilds(items) ==
    \A i, j \in DOMAIN items :
        ( /\ items[i].kind = items[j].kind /\ items[i].self = items[j].self
          /\ items[i].name = items[j].name /\ items[i].target = items[j].target ) => i = j

RECURSIVE Instances(_, _), FieldValues(_, _, _)
\* the values of the fields i.. of a node: every leaf in 0..MaxLeaf, every
\* nested node in an allocation of its own
FieldValues(node, p, i) ==
    LET field == node.fields[i]
        own == IF field.kind = "Struct"
               THEN {ArcNew(<<0, Append(p, field.ident)>>, n) :
                        n \in Instances(Nested(field), Append(p, field.ident))}
               ELSE {Leaf(v) : v \in 0..MaxLeaf}
    IN IF i = Len(node.fields)
       THEN {field.ident :> v : v \in own}
       ELSE {(field.ident :> v) @@ rest : v \in own, rest \in FieldValues(node, p, i + 1)}

\* the snapshots of a node whose allocations are named by the field path p
Instances(node, p) == {[ty |-> node.ty, f |-> g] : g \in FieldValues(node, p, 1)}

RECURSIVE PathsTo(_, _, _)
\* the field paths of a schema that lead to a field of the given kind
PathsTo(node, p, kind) ==
    UNION {
        (IF node.fields[i].kind = kind THEN {Append(p, node.fields[i].ident)} ELSE {})
        \cup (IF node.fields[i].kind = "Struct"
              THEN PathsTo(Nested(node.fields[i]), Append(p, node.fields[i].ident), kind)
              ELSE {})
        : i \in DOMAIN node.fields }

LeafPaths(node) == PathsTo(node, <<>>, "Field")
\* the nodes of a schema, each by its field path from the root
NodePaths(node) == {<<>>} \cup PathsTo(node, <<>>, "Struct")

\* the node of a snapshot at a node path
NodeAt(v, path) == IF path = <<>> THEN v ELSE Walk(v, path).val

RECURSIVE SchemaAt(_, _)
SchemaAt(node, path) ==
    IF path = <<>> THEN node
    ELSE SchemaAt(Nested(node.fields[CHOOSE i \in DOMAIN node.fields :
                                        node.fields[i].ident = path[1]]), Tail(path))

RECURSIVE SetLeaf(_, _, _)
\* compact.a.b.leaf = v
SetLeaf(cv, path, v) ==
    IF Len(path) = 1 THEN [cv EXCEPT !.f[path[1]] = Leaf(v)]
    ELSE [cv EXCEPT !.f[path[1]] = Leaf(SetLeaf(cv.f[path[1]].val, Tail(path), v))]

Built == Len(emitted) = 1 /\ ~emitted[1].error /\ emitted[1].builds
Crate == emitted[1].crate

InitConfig ==
    /\ InitTracker /\ cfg_test = FALSE
    /\ NoFetcher /\ NoBuilder
    /\ schema \in Schemas
    /\ emitted = <<>> /\ config = <<>> /\ scratch = <<>> /\ other_config = <<>> /\ out = <<>>

\* config_struct!(schema), then the derives of the emitted structs
ConfigStruct ==
    /\ Len(emitted) = 0
    /\ LET r == config_struct(schema) IN
       emitted' = << [error |-> r.error, items |-> r.items,
                      crate |-> ExpandDerives(r.items),
                      builds |-> CrateBuilds(ExpandDerives(r.items))] >>
    /\ UNCHANGED <<schema, config, scratch, other_config, out>>
    /\ UNCHANGED <<trackerVars, fetchVars, featureVars>>

\* the program builds its baseline snapshot
Construct ==
    /\ Built /\ Len(config) = 0
    /\ \E v \in Instances(schema, <<>>) : config' = <<v>>
    /\ UNCHANGED <<schema, emitted, scratch, other_config, out>>
    /\ UNCHANGED <<trackerVars, fetchVars, featureVars>>

\* let mut other_config = config.clone().compact();
Compact ==
    /\ Len(config) = 1 /\ Len(scratch) = 0 /\ Len(other_config) = 0
    /\ scratch' = <<compact(Crate, config[1])>>
    /\ UNCHANGED <<schema, emitted, config, other_config, out>>
    /\ UNCHANGED <<trackerVars, fetchVars, featureVars>>

\* other_config.<path> = v;
SetField ==
    /\ Len(scratch) = 1
    /\ \E path \in LeafPaths(schema), v \in 0..MaxLeaf :
          /\ SetLeaf(scratch[1], path, v) # scratch[1]
          /\ scratch' = <<SetLeaf(scratch[1], path, v)>>
    /\ UNCHANGED <<schema, emitted, config, other_config, out>>
    /\ UNCHANGED <<trackerVars, fetchVars, featureVars>>

\* variant: the compact value is frozen into the allocations of the baseline
ArcifyInPlace ==
    /\ Len(scratch) = 1
    /\ other_config' = <<arcify(Crate, scratch[1], <<0, <<>>>>)>>
    /\ config' = <<other_config'[1].val>>
    /\ scratch' = <<>>
    /\ UNCHANGED <<schema, emitted, out>>
    /\ UNCHANGED <<trackerVars, fetchVars, featureVars>>

\* let other_config = other_config.arcify();  the compact value is moved
Arcify ==
    /\ Len(scratch) = 1
    /\ other_config' = <<arcify(Crate, scratch[1], <<1, <<>>>>)>>
    /\ scratch' = <<>>
    /\ UNCHANGED <<schema, emitted, config, out>>
    /\ UNCHANGED <<trackerVars, fetchVars, featureVars>>

\* s1.restart_required(&s2) on the two snapshots of one node of the schema
RestartRequiredCall ==
    /\ Len(other_config) = 1
    /\ \E np \in NodePaths(schema) :
          out' = << [op |-> "restart_required", node |-> np, target |-> "",
                     val |-> restart_required_run(Crate, NodeAt(config[1], np),
                                                  NodeAt(other_config[1].val, np))] >>
    /\ UNCHANGED <<schema, emitted, config, scratch, other_config>>
    /\ UNCHANGED <<trackerVars, fetchVars, featureVars>>

\* let b: Arc<B> = a.share(); for a node a of the baseline and a node type B below it
Share ==
    /\ Len(config) = 1
    /\ \E np \in NodePaths(schema) :
       \E dp \in PathsTo(SchemaAt(schema, np), <<>>, "Struct") :
          LET a == NodeAt(config[1], np)
              B == SchemaAt(schema, np \o dp).ty
          IN out' = << [op |-> "share", node |-> np, target |-> B,
                        val |-> share(Crate, a, B)] >>
    /\ UNCHANGED <<schema, emitted, config, scratch, other_config>>
    /\ UNCHANGED <<trackerVars, fetchVars, featureVars>>

NextConfig ==
    \/ ConfigStruct
    \/ Construct
    \/ Compact
    \/ SetField
    \/ Arcify
    \/ RestartRequiredCall
    \/ Share

SpecConfig == InitConfig /\ [][NextConfig]_vars

(***************************************************************************)
(* Fetchers.  A program of one caller that holds a shared GatedFetcher and *)
(* a sub-fetcher derived from it, and calls latest_snapshot on the two     *)
(* handles in any order.                                                   *)
(***************************************************************************)
MaxCalls == 4

\* config_struct!(struct Foo { val: u32, bar: struct Bar { val: u32 } })
FooSchema ==
    NestableStruct("Foo",
        << Field({}, "val", "u32"),
           StructField({}, "bar", NestableStruct("Bar", << Field({}, "val", "u32") >>)) >>)

FooCrate == ExpandDerives(config_struct(FooSchema).items)

\* Arc::new(Foo { val: v, bar: Arc::new(Bar { val: v }) }), the e-th one made
MakeFoo(e, v) ==
    ArcNew(<<e, <<>>>>,
        [ty |-> "Foo",
         f |-> [val |-> Leaf(v),
                bar |-> ArcNew(<<e, <<"bar">>>>, [ty |-> "Bar", f |-> [val |-> Leaf(v)]])]])

\* the fields of the GatedFetcher next to its counter
make_fetcher == [config1 |-> MakeFoo(1, 0), config2 |-> MakeFoo(2, 1)]

\* GatedFetcher::latest_snapshot after its fetch_add, on a counter that now reads n
latest_snapshot(n) ==
    IF n > cut_over THEN make_fetcher.config2 ELSE make_fetcher.config1

\* into_shared_fetcher: the handle is the fetcher itself behind an Arc
into_shared_fetcher(fetcher) == fetcher

\* as_shared_fetcher::<Foo, T2, _>(&fetcher): the closure's capture is the same Arc
as_shared_fetcher(fetcher, T2) == [clone |-> fetcher, T2 |-> T2]

fetcher == into_shared_fetcher(1)
sub_fetcher == as_shared_fetcher(fetcher, "Bar")

InitFetch ==
    /\ InitTracker /\ cfg_test = FALSE
    /\ NoConfig /\ NoBuilder
    /\ counter = <<0>>
    /\ cut_over \in 0..MaxCalls
    /\ log = <<>>
    /\ inflight = <<>>

\* fetcher.latest_snapshot()
ParentLatestSnapshot ==
    /\ Len(log) < MaxCalls
    /\ counter' = [counter EXCEPT ![fetcher] = @ + 1]
    /\ log' = Append(log, [via |-> "fetcher", got |-> latest_snapshot(counter'[fetcher])])
    /\ UNCHANGED <<cut_over, inflight>>
    /\ UNCHANGED <<trackerVars, configVars, featureVars>>

\* variant: the closure asks the parent twice and projects the second answer
SubLatestSnapshotTwice ==
    /\ Len(log) < MaxCalls
    /\ counter' = [counter EXCEPT ![sub_fetcher.clone] = @ + 2]
    /\ log' = Append(log, [via |-> "sub_fetcher",
                           got |-> share(FooCrate,
                                         latest_snapshot(counter'[sub_fetcher.clone]).val,
                                         sub_fetcher.T2)])
    /\ UNCHANGED <<cut_over, inflight>>
    /\ UNCHANGED <<trackerVars, configVars, featureVars>>

\* variant: the closure keeps the projection it returned first
SubLatestSnapshotCached ==
    /\ Len(log) < MaxCalls
    /\ LET before == SelectSeq(log, LAMBDA e : e.via = "sub_fetcher") IN
       IF Len(before) > 0
       THEN /\ log' = Append(log, before[1])
            /\ UNCHANGED counter
       ELSE /\ counter' = [counter EXCEPT ![sub_fetcher.clone] = @ + 1]
            /\ log' = Append(log, [via |-> "sub_fetcher",
                                   got |-> share(FooCrate,
                                                 latest_snapshot(counter'[sub_fetcher.clone]).val,
                                                 sub_fetcher.T2)])
    /\ UNCHANGED <<cut_over, inflight>>
    /\ UNCHANGED <<trackerVars, configVars, featureVars>>

\* sub_fetcher.latest_snapshot(): clone.latest_snapshot(), then snapshot.share()
SubLatestSnapshot ==
    /\ Len(log) < MaxCalls
    /\ counter' = [counter EXCEPT ![sub_fetcher.clone] = @ + 1]
    /\ log' = Append(log, [via |-> "sub_fetcher",
                           got |-> share(FooCrate,
                                         latest_snapshot(counter'[sub_fetcher.clone]).val,
                                         sub_fetcher.T2)])
    /\ UNCHANGED <<cut_over, inflight>>
    /\ UNCHANGED <<trackerVars, configVars, featureVars>>

NextFetch ==
    \/ ParentLatestSnapshot
    \/ SubLatestSnapshot

SpecFetch == InitFetch /\ [][NextFetch]_vars

(***************************************************************************)
(* The program whose threads read one gated root fetcher through adapters: *)
(* conspiracy/tests/sub_fetcher.rs with the three-level schema of          *)
(* conspiracy/tests/config_generation.rs, the calls running concurrently.  *)
(***************************************************************************)
MaxShared == 3

AbcSchema == Declaration(NoTags, "ConfigB", "ConfigC")
AbcCrate == ExpandDerives(config_struct(AbcSchema).items)

\* Arc::new(ConfigA { foo: v, bar: Arc::new(ConfigB { foo: v, baz: Arc::new(ConfigC { foo: v }) }) })
MakeAbc(e, v) ==
    ArcNew(<<e, <<>>>>,
        [ty |-> "ConfigA",
         f |-> [foo |-> Leaf(v),
                bar |-> ArcNew(<<e, <<"bar">>>>,
                    [ty |-> "ConfigB",
                     f |-> [foo |-> Leaf(v),
                            baz |-> ArcNew(<<e, <<"bar", "baz">>>>,
                                [ty |-> "ConfigC", f |-> [foo |-> Leaf(v)]])]])]])

\* the two snapshots the gated root fetcher holds
make_fetcher_abc == [config1 |-> MakeAbc(1, 0), config2 |-> MakeAbc(2, 1)]

\* if self.counter.load(SeqCst) > self.cut_over { config2.clone() } else { config1.clone() }
latest_snapshot_abc(n) ==
    IF n > cut_over THEN make_fetcher_abc.config2 ELSE make_fetcher_abc.config1

\* the adapters, each behind an Arc of its own: 2, 3 and 4 next to the root 1
b_fetcher == as_shared_fetcher(fetcher, "ConfigB")
c_fetcher == as_shared_fetcher(fetcher, "ConfigC")
bc_fetcher == as_shared_fetcher(2, "ConfigC")

Adapter(id) ==
    CASE id = 2 -> b_fetcher
      [] id = 3 -> c_fetcher
      [] id = 4 -> bc_fetcher

Handles == {fetcher, 2, 3, 4}

RECURSIVE Closures(_)
\* the share() calls a call of latest_snapshot on a handle runs after the root
\* has answered, innermost closure first
Closures(id) ==
    IF id = fetcher THEN <<>>
    ELSE Append(Closures(Adapter(id).clone), Adapter(id).T2)

Idle == [via |-> 0, at |-> "idle", todo |-> <<>>, cur |-> <<>>, parent |-> <<>>]

Started == Len(log) + Cardinality({t \in Threads : inflight[t].at # "idle"})

InitShared ==
    /\ InitTracker /\ cfg_test = FALSE
    /\ NoConfig /\ NoBuilder
    /\ counter = <<0>>
    /\ cut_over \in 0..MaxShared
    /\ log = <<>>
    /\ inflight = [t \in Threads |-> Idle]

\* handle.latest_snapshot() is entered; every adapter calls its clone first
SharedBegin(t, id) ==
    /\ inflight[t].at = "idle"
    /\ Started < MaxShared
    /\ inflight' = [inflight EXCEPT ![t] =
                       [via |-> id, at |-> "fetch_add", todo |-> Closures(id),
                        cur |-> <<>>, parent |-> <<>>]]
    /\ UNCHANGED <<counter, cut_over, log>>
    /\ UNCHANGED <<trackerVars, configVars, featureVars>>

\* self.counter.fetch_add(1, Ordering::SeqCst)
RootFetchAdd(t) ==
    /\ inflight[t].at = "fetch_add"
    /\ counter' = [counter EXCEPT ![fetcher] = @ + 1]
    /\ inflight' = [inflight EXCEPT ![t].at = "load"]
    /\ UNCHANGED <<cut_over, log>>
    /\ UNCHANGED <<trackerVars, configVars, featureVars>>

\* self.counter.load(Ordering::SeqCst) > self.cut_over, and the clone returned
RootLoad(t) ==
    /\ inflight[t].at = "load"
    /\ LET snapshot == latest_snapshot_abc(counter[fetcher]) IN
       inflight' = [inflight EXCEPT ![t].at = "closure",
                                    ![t].cur = <<snapshot>>,
                                    ![t].parent = Append(@, snapshot)]
    /\ UNCHANGED <<counter, cut_over, log>>
    /\ UNCHANGED <<trackerVars, configVars, featureVars>>

\* variant: the closure takes the allocation from the snapshot it holds and the
\* contents from a snapshot it fetches anew
ClosureShareMixed(t) ==
    /\ inflight[t].at = "closure"
    /\ Len(inflight[t].todo) > 0
    /\ counter' = [counter EXCEPT ![fetcher] = @ + 1]
    /\ LET again == latest_snapshot_abc(counter'[fetcher])
           held == share(AbcCrate, inflight[t].cur[1].val, Head(inflight[t].todo))
           fresh == IF inflight[t].cur[1].val.ty = "ConfigA"
                    THEN share(AbcCrate, again.val, Head(inflight[t].todo))
                    ELSE share(AbcCrate, again.val, "ConfigC")
       IN inflight' = [inflight EXCEPT ![t].cur = <<[held EXCEPT !.val = fresh.val]>>,
                                       ![t].todo = Tail(@)]
    /\ UNCHANGED <<cut_over, log>>
    /\ UNCHANGED <<trackerVars, configVars, featureVars>>

\* variant: an adapter of an adapter asks the root itself and projects from there
ClosureShareRefetch(t) ==
    /\ inflight[t].at = "closure"
    /\ Len(inflight[t].todo) > 0
    /\ IF inflight[t].cur[1].val.ty = "ConfigA"
       THEN /\ inflight' = [inflight EXCEPT
                   ![t].cur = <<share(AbcCrate, @[1].val, Head(inflight[t].todo))>>,
                   ![t].todo = Tail(@)]
            /\ UNCHANGED counter
       ELSE /\ counter' = [counter EXCEPT ![fetcher] = @ + 1]
            /\ inflight' = [inflight EXCEPT
                   ![t].cur = <<share(AbcCrate, latest_snapshot_abc(counter'[fetcher]).val,
                                      Head(inflight[t].todo))>>,
                   ![t].todo = Tail(@)]
    /\ UNCHANGED <<cut_over, log>>
    /\ UNCHANGED <<trackerVars, configVars, featureVars>>

\* let inner: Arc<T2> = snapshot.share();
ClosureShare(t) ==
    /\ inflight[t].at = "closure"
    /\ Len(inflight[t].todo) > 0
    /\ inflight' = [inflight EXCEPT
           ![t].cur = <<share(AbcCrate, @[1].val, Head(inflight[t].todo))>>,
           ![t].todo = Tail(@)]
    /\ UNCHANGED <<counter, cut_over, log>>
    /\ UNCHANGED <<trackerVars, configVars, featureVars>>

\* the outermost closure returns
SharedReturn(t) ==
    /\ inflight[t].at = "closure"
    /\ Len(inflight[t].todo) = 0
    /\ log' = Append(log, [via |-> inflight[t].via, got |-> inflight[t].cur[1],
                           parent |-> inflight[t].parent])
    /\ inflight' = [inflight EXCEPT ![t] = Idle]
    /\ UNCHANGED <<counter, cut_over>>
    /\ UNCHANGED <<trackerVars, configVars, featureVars>>

NextShared ==
    \/ \E t \in Threads, id \in Handles : SharedBegin(t, id)
    \/ \E t \in Threads : RootFetchAdd(t)
    \/ \E t \in Threads : RootLoad(t)
    \/ \E t \in Threads : ClosureShare(t)
    \/ \E t \in Threads : SharedReturn(t)

SpecShared == InitShared /\ [][NextShared]_vars

(***************************************************************************)
(* define_features!: the State struct, its RestartRequired impl and its    *)
(* builder.  The attributes of each flag are an input; the program makes   *)
(* a builder, calls setters, builds once, and compares the built state     *)
(* with other states.                                                      *)
(***************************************************************************)
ConspiracyRestart == [path |-> "conspiracy", arg |-> "restart"]
ConspiracyOther == [path |-> "conspiracy", arg |-> "other"]

\* the attribute lists a flag is declared with
AttrLists ==
    { <<>>, <<ConspiracyRestart>>, <<ConspiracyOther>>,
      <<ConspiracyOther, ConspiracyRestart>>, <<ConspiracyRestart, ConspiracyRestart>> }

RECURSIVE ExtractFrom(_, _, _)
\* attrs.retain(..): a conspiracy(restart) attribute is taken out and recorded
\* by try_set_attribute, which panics on the second one
ExtractFrom(list, i, acc) ==
    IF i > Len(list) \/ acc.panic THEN acc
    ELSE IF list[i].path = "conspiracy" /\ list[i].arg = "restart"
         THEN ExtractFrom(list, i + 1,
                 IF Len(acc.extracted) = 0
                 THEN [acc EXCEPT !.extracted = <<"Restart">>]
                 ELSE [acc EXCEPT !.panic = TRUE])
         ELSE ExtractFrom(list, i + 1, [acc EXCEPT !.kept = Append(@, list[i])])

extract_conspiracy_attributes(list) ==
    ExtractFrom(list, 1, [kept |-> <<>>, extracted |-> <<>>, panic |-> FALSE])

\* define_features! expands without panicking
Expands(decl) == \A i \in DOMAIN decl : ~extract_conspiracy_attributes(decl[i]).panic

\* make_features_state_struct: the snake-case names of the flags whose extracted
\* attribute is Restart, in declaration order
restart_required_fields(decl) ==
    LET tagged == SelectSeq([i \in DOMAIN Features |-> i],
                      LAMBDA i : extract_conspiracy_attributes(decl[i]).extracted = <<"Restart">>)
    IN [j \in DOMAIN tagged |-> ToSnake(Features[tagged[j]].name)]

\* variant: every flag is compared, as PartialEq does
feature_restart_required_all(decl, self, other_state) ==
    \E f \in FieldNames : self[f] # other_state[f]

\* the emitted RestartRequired::restart_required: false when no flag is marked,
\* else self.a != other.a || self.b != other.b ...
feature_restart_required(decl, self, other_state) ==
    LET fields == restart_required_fields(decl) IN
    IF Len(fields) = 0 THEN FALSE
    ELSE \E j \in DOMAIN fields : self[fields[j]] # other_state[fields[j]]

\* Features::builder_fns: one setter per flag, named as its field
builder_fns == {ToSnake(Features[i].name) : i \in DOMAIN Features}

\* variant: the setter writes its flag into a fresh default state
setter_from_default(state, fn, value) == [default_impl EXCEPT ![fn] = value]

\* self.state.#function_name = value; self
setter(state, fn, value) == [state EXCEPT ![fn] = value]

\* every value of the State struct
FeatureStates == [FieldNames -> BOOLEAN]

NotSet == [f \in FieldNames |-> <<>>]

InitFeature ==
    /\ InitTracker /\ cfg_test = FALSE
    /\ NoConfig /\ NoFetcher
    /\ attrs \in [DOMAIN Features -> AttrLists]
    /\ builder = <<>> /\ last = <<>> /\ states = <<>> /\ rr = <<>>

\* Features::builder() = FeaturesStateBuilder::new(): state from Default
BuilderNew ==
    /\ Expands(attrs)
    /\ Len(builder) = 0 /\ Len(states) = 0
    /\ builder' = <<default_impl>>
    /\ last' = NotSet
    /\ UNCHANGED <<attrs, states, rr>>
    /\ UNCHANGED <<trackerVars, configVars, fetchVars>>

\* builder.<flag>(value)
Setter ==
    /\ Len(builder) = 1
    /\ \E fn \in builder_fns, value \in BOOLEAN :
          /\ builder' = <<setter(builder[1], fn, value)>>
          /\ last' = [last EXCEPT ![fn] = <<value>>]
    /\ UNCHANGED <<attrs, states, rr>>
    /\ UNCHANGED <<trackerVars, configVars, fetchVars>>

\* builder.build(): the builder is consumed and its state returned
Build ==
    /\ Len(builder) = 1
    /\ states' = <<builder[1]>>
    /\ builder' = <<>>
    /\ rr' = <<>>
    /\ UNCHANGED <<attrs, last>>
    /\ UNCHANGED <<trackerVars, configVars, fetchVars>>

\* s1.restart_required(&s2) for the built state s2 and any state s1
FeatureRestartRequired ==
    /\ Len(states) = 1
    /\ \E s1 \in FeatureStates :
          rr' = << [self |-> s1,
                    val |-> feature_restart_required(attrs, s1, states[1])] >>
    /\ UNCHANGED <<attrs, builder, last, states>>
    /\ UNCHANGED <<trackerVars, configVars, fetchVars>>

NextFeature ==
    \/ BuilderNew
    \/ Setter
    \/ Build
    \/ FeatureRestartRequired

SpecFeature == InitFeature /\ [][NextFeature]_vars

(***************************************************************************)
(* Vocabulary of the properties.                                           *)
(***************************************************************************)
IsSet(o) == o.kind = "set_global_tracker"
IsRead(o) == o.kind \in ReadKinds \cup MacroKinds \cup OrKinds
\* the last call that returned ran (its expansion was accepted by the compiler)
Ran == ret.result.tag \notin {"none", "CompileError"}
\* thread t is the winner, between its exchange and its return
Registering(t) == pc[t] \in {"store_slot", "store_init", "probe"}

\* the default the schema declares for a variant
SchemaDefault(F) ==
    LET i == CHOOSE j \in DOMAIN Features : Features[j].name = F IN Features[i].default

\* the value of variant F in a snapshot of the schema
FlagIn(v, F) == IF v = default_impl THEN SchemaDefault(F) ELSE ~SchemaDefault(F)

(***************************************************************************)
(* C1.  Of the set_global_tracker calls that have executed their           *)
(* compare_exchange, exactly one won; every other call returned            *)
(* GlobalTrackerAlreadySet, whether it ran concurrently with the winner or *)
(* after it.                                                               *)
(***************************************************************************)
C1_ExactlyOneWinner ==
    /\ casWon <= 1
    /\ casWon + casLost >= 1 => casWon = 1
    /\ Cardinality({t \in Threads : Registering(t)})
         + (IF Registered THEN 1 ELSE 0) = casWon
    /\ (IsSet(ret.op) /\ ret.op.prov # winner.prov)
          => ret.result.tag = "GlobalTrackerAlreadySet"
    /\ (IsSet(ret.op) /\ ret.op.prov = winner.prov)
          => ret.result.tag \in {"Ok", "BadCast"}

\* a loser was rejected while the winner was still between its exchange and its store
C1_Witness ==
    /\ \E w \in Threads : IsSet(op[w]) /\ pc[w] = "store_slot"
    /\ IsSet(ret.op) /\ ret.result.tag = "GlobalTrackerAlreadySet"
    /\ casWon = 1 /\ casLost = 1

(***************************************************************************)
(* C2.  A read that began after the winning set_global_tracker returned    *)
(* observes INITIALIZED and takes its state from the winner's tracker; no  *)
(* read ever uses a tracker passed by a losing call.                       *)
(***************************************************************************)
C2_ReadsSeeWinner ==
    /\ (IsRead(ret.op) /\ Ran /\ ret.after) =>
          /\ Checked(ret.op) => ret.seen = INITIALIZED
          /\ ret.tracker = winner.prov
          /\ ret.got \in Snapshots(winner.prov)
    /\ (IsRead(ret.op) /\ IsProvider(ret.tracker)) => ret.tracker = winner.prov

C2_Witness ==
    /\ IsRead(ret.op) /\ Ran /\ ret.after
    /\ ret.tracker = winner.prov
    /\ casLost >= 1

(***************************************************************************)
(* C3.  GLOBAL_TRACKER_INIT only steps UNINITIALIZED -> INITIALIZING and   *)
(* INITIALIZING -> INITIALIZED, GLOBAL_TRACKER is assigned at most once,   *)
(* both only by a step of set_global_tracker; no step of a read changes    *)
(* either.                                                                 *)
(***************************************************************************)
C3_Step ==
    /\ GLOBAL_TRACKER_INIT' # GLOBAL_TRACKER_INIT =>
          /\ \/ GLOBAL_TRACKER_INIT = UNINITIALIZED /\ GLOBAL_TRACKER_INIT' = INITIALIZING
             \/ GLOBAL_TRACKER_INIT = INITIALIZING /\ GLOBAL_TRACKER_INIT' = INITIALIZED
          /\ \E t \in Threads :
                \/ pc[t] = "idle" /\ pc'[t] = "store_slot" /\ IsSet(op'[t])
                \/ pc[t] = "store_init" /\ pc'[t] = "probe" /\ IsSet(op[t])
    /\ GLOBAL_TRACKER' # GLOBAL_TRACKER =>
          /\ slotWrites = 0
          /\ GLOBAL_TRACKER = NO_TRACKER
          /\ GLOBAL_TRACKER_INIT = INITIALIZING
          /\ \E t \in Threads : IsSet(op[t]) /\ pc[t] = "store_slot" /\ pc'[t] # pc[t]
    /\ slotWrites' <= 1
    /\ \A t \in Threads :
          ((IsRead(op[t]) /\ pc'[t] # pc[t]) \/ (pc[t] = "idle" /\ IsRead(op'[t])))
             => UNCHANGED shared
    /\ (ret' # ret /\ IsRead(ret'.op)) => UNCHANGED shared

\* C3: the registration state machine is forward-only and written by set_global_tracker alone
C3_ForwardOnly == [][C3_Step]_vars

\* the terminal state was reached through one assignment, and a read has run since
C3_Witness ==
    /\ GLOBAL_TRACKER_INIT = INITIALIZED
    /\ slotWrites = 1
    /\ IsRead(ret.op) /\ Ran /\ ret.after

(***************************************************************************)
(* C4.  Whenever GLOBAL_TRACKER_INIT is INITIALIZED the slot holds the     *)
(* winner's tracker, and a reader whose guard observed INITIALIZED reads   *)
(* the winner's tracker from the slot, never the NoTracker placeholder or  *)
(* a partly written reference.                                             *)
(***************************************************************************)
C4_InitializedMeansPublished ==
    /\ GLOBAL_TRACKER_INIT = INITIALIZED =>
          /\ IsProvider(GLOBAL_TRACKER)
          /\ GLOBAL_TRACKER = winner.prov
    /\ (IsRead(ret.op) /\ Checked(ret.op) /\ ret.seen = INITIALIZED /\ ret.tracker # UNREAD)
          => ret.tracker = winner.prov

(***************************************************************************)
(* C5.  A winning set_global_tracker::<T, _> whose tracker has a state     *)
(* type other than T returns BadCast; the registration has completed all   *)
(* the same: the state is INITIALIZED, the tracker stays in the slot, and  *)
(* every set_global_tracker begun afterwards returns                       *)
(* GlobalTrackerAlreadySet.                                                *)
(***************************************************************************)
C5_BadCastAfterRegistration ==
    /\ (Registered /\ winner.prov.ty # winner.T) => winner.res = "BadCast"
    /\ winner.res = "BadCast" =>
          /\ winner.prov.ty # winner.T
          /\ GLOBAL_TRACKER_INIT = INITIALIZED
          /\ GLOBAL_TRACKER = winner.prov
          /\ (IsSet(ret.op) /\ ret.after) => ret.result.tag = "GlobalTrackerAlreadySet"

C5_Witness ==
    /\ winner.res = "BadCast"
    /\ IsSet(ret.op) /\ ret.after /\ ret.result.tag = "GlobalTrackerAlreadySet"

(***************************************************************************)
(* C6.  After a registration that returned BadCast for T, a read of type T *)
(* through feature_state_unchecked (directly, or by feature_enabled! in a  *)
(* build without cfg(test)) panics; it returns neither a state nor a flag  *)
(* value.                                                                  *)
(***************************************************************************)
C6_UncheckedAfterBadCastPanics ==
    ( /\ IsRead(ret.op) /\ ~Checked(ret.op) /\ Ran /\ ret.after
      /\ winner.res = "BadCast" /\ ret.op.T = winner.T )
       => ret.result.tag = "Panic"

C6_Witness ==
    /\ IsRead(ret.op) /\ ~Checked(ret.op) /\ Ran /\ ret.after
    /\ winner.res = "BadCast" /\ ret.op.T = winner.T
    /\ IsProvider(ret.tracker) /\ ret.got.ty # ret.op.T
    /\ ret.result.tag = "Panic"

(***************************************************************************)
(* C7.  try_feature_state whose load of GLOBAL_TRACKER_INIT returned       *)
(* UNINITIALIZED or INITIALIZING returns Err(NoGlobalTracker) at once: it  *)
(* does not panic, does not read GLOBAL_TRACKER and invokes no tracker.    *)
(***************************************************************************)
C7_CheckedReadWithoutTracker ==
    /\ \A t \in Threads :
          op[t].kind = "try_feature_state" => seen[t] \notin {UNINITIALIZED, INITIALIZING}
    /\ (ret.op.kind = "try_feature_state" /\ ret.seen \in {UNINITIALIZED, INITIALIZING})
          => /\ ret.result.tag = "NoGlobalTracker"
             /\ ret.tracker = UNREAD
             /\ ret.calls = 0
             /\ ret.got = NoState

\* the guard ran while the winner was between its exchange and its last store
C7_Witness ==
    /\ ret.op.kind = "try_feature_state" /\ ret.seen = INITIALIZING
    /\ ret.result.tag = "NoGlobalTracker"
    /\ \E w \in Threads : IsSet(op[w]) /\ pc[w] \in {"store_slot", "store_init"}

(***************************************************************************)
(* C8.  Without cfg(test), a read through feature_state_unchecked made     *)
(* while no set_global_tracker call has ever begun its registration panics *)
(* and returns no value.                                                   *)
(***************************************************************************)
C8_UncheckedWithoutTrackerPanics ==
    ( /\ IsRead(ret.op) /\ ~Checked(ret.op) /\ Ran
      /\ GLOBAL_TRACKER_INIT = UNINITIALIZED )
       => /\ ret.result.tag = "Panic"
          /\ ret.tracker = NO_TRACKER

C8_Witness ==
    /\ ~cfg_test /\ ret.op.kind = "feature_enabled" /\ Ran
    /\ GLOBAL_TRACKER_INIT = UNINITIALIZED
    /\ ret.result.tag = "Panic"

(***************************************************************************)
(* C9.  In a cfg(test) build with no tracker registered,                   *)
(* feature_enabled!(F) and feature_enabled_or_default!(F) yield the        *)
(* default the schema declares for F, for every variant F, without panic.  *)
(***************************************************************************)
C9_TestModeDefaults ==
    ( /\ cfg_test /\ ret.op.kind \in MacroKinds
      /\ GLOBAL_TRACKER_INIT = UNINITIALIZED )
       => ret.result = R("Value", SchemaDefault(ret.op.flag))

(***************************************************************************)
(* C10.  Once a tracker whose state type is the schema's state type has    *)
(* been registered, feature_enabled!(F) yields, for every variant F, the   *)
(* value of F in the snapshot the tracker returned to that call, in builds *)
(* with and without cfg(test), also when it differs from F's default.      *)
(***************************************************************************)
C10_RegisteredTrackerOverrides ==
    ( /\ ret.op.kind = "feature_enabled" /\ ret.after
      /\ winner.res = "Ok" /\ winner.prov.ty = AssociatedState )
       => /\ ret.result.tag = "Value"
          /\ ret.got \in Snapshots(winner.prov)
          /\ ret.result.val = FlagIn(ret.got.val, ret.op.flag)

(***************************************************************************)
(* C11.  feature_enabled_or!(F, v) yields v, without consulting a tracker, *)
(* when its guard finds no tracker registered; when it finds the state     *)
(* INITIALIZED it invokes the registered tracker once and yields the value *)
(* of F in the state the tracker returned, not the provided v.             *)
(***************************************************************************)
C11_ProvidedValueOnlyUnregistered ==
    ret.op.kind \in OrKinds =>
       /\ ret.seen \in {UNINITIALIZED, INITIALIZING} =>
             ret.result = R("Value", ret.op.v) /\ ret.calls = 0
       /\ ret.seen = INITIALIZED =>
             /\ ret.tracker = winner.prov /\ ret.calls = 1
             /\ ret.got \in Snapshots(winner.prov)
             /\ ret.got.ty = AssociatedState
             /\ ret.result = R("Value", FlagIn(ret.got.val, ret.op.flag))

(***************************************************************************)
(* C19.  A set_global_tracker call is wait-free: each of its steps can be  *)
(* taken in every state, whatever the other threads are doing, and it      *)
(* moves the call strictly forward through compare_exchange, slot write,   *)
(* state store and probe, so a winner returns after four own steps and a   *)
(* loser after one, in the step of its compare_exchange.                   *)
(***************************************************************************)
\* position of a set_global_tracker call: 0 outside a call
Rank(p) == CASE p = "store_slot" -> 1 [] p = "store_init" -> 2 [] p = "probe" -> 3
             [] OTHER -> 0

C19_NeverBlocked ==
    \A t \in Threads :
        /\ (pc[t] = "idle" /\ casWon + casLost < MaxSetCalls) => ENABLED SetGlobalTracker(t)
        /\ pc[t] = "store_slot" => ENABLED StoreSlot(t)
        /\ pc[t] = "store_init" => ENABLED StoreInit(t)
        /\ pc[t] = "probe" => ENABLED Probe(t)

C19_Step ==
    /\ \A t \in Threads :
          (pc'[t] # pc[t] /\ (IsSet(op[t]) \/ IsSet(op'[t]))) =>
             \/ Rank(pc'[t]) = Rank(pc[t]) + 1
             \/ Rank(pc[t]) = 3 /\ pc'[t] = "idle"
    \* a losing call returns in the step that begins it
    /\ casLost' # casLost =>
          /\ casLost' = casLost + 1 /\ UNCHANGED pc
          /\ ret'.result.tag = "GlobalTrackerAlreadySet"

\* C19: set_global_tracker never waits and never loops
C19_WaitFree == [](C19_NeverBlocked) /\ [][C19_Step]_vars

\* a call lost and returned while the winner had not yet stored INITIALIZED
C19_Witness ==
    /\ GLOBAL_TRACKER_INIT = INITIALIZING
    /\ \E w \in Threads : pc[w] = "store_init"
    /\ IsSet(ret.op) /\ ret.result.tag = "GlobalTrackerAlreadySet" /\ casLost >= 1

(***************************************************************************)
(* C21.  No read of GLOBAL_TRACKER overlaps the winner's write of it: a    *)
(* call that is about to read the slot (the winner's type probe, or        *)
(* feature_state_inner on behalf of try_feature_state or                   *)
(* feature_state_unchecked) never does so while the state is INITIALIZING, *)
(* and no read returns a reference that was being written.                 *)
(***************************************************************************)
C21_SlotReadsGuarded ==
    /\ \A t \in Threads :
          pc[t] \in {"inner", "probe"} => GLOBAL_TRACKER_INIT # INITIALIZING
    /\ (IsRead(ret.op) /\ ret.tracker # UNREAD) => ret.tracker # TORN

(***************************************************************************)
(* C22.  The store that made the state INITIALIZED is a release operation  *)
(* or stronger, and the load by which a reader has observed the state      *)
(* before it uses the slot is an acquire operation or stronger.            *)
(***************************************************************************)
C22_PublishReleaseLoadAcquire ==
    /\ GLOBAL_TRACKER_INIT = INITIALIZED => IsRelease(InitStoreOrdering)
    /\ \A t \in Threads :
          (pc[t] = "inner" /\ Checked(op[t])) => IsAcquire(GuardLoadOrdering)

(***************************************************************************)
(* C23.  The winning set_global_tracker invokes static_feature_state once, *)
(* on its own tracker, when the state is INITIALIZED; a losing call        *)
(* invokes no tracker; a try_feature_state or feature_state_unchecked that *)
(* returns Ok has invoked the installed tracker once.                      *)
(***************************************************************************)
C23_ProviderInvocations ==
    /\ \A t \in Threads : pc[t] = "probe" => GLOBAL_TRACKER_INIT = INITIALIZED
    /\ (IsSet(ret.op) /\ ret.result.tag # "GlobalTrackerAlreadySet") =>
          /\ ret.calls = 1
          /\ ret.tracker = ret.op.prov /\ ret.op.prov = winner.prov
          /\ ret.got \in Snapshots(winner.prov)
          /\ GLOBAL_TRACKER_INIT = INITIALIZED
    /\ (IsSet(ret.op) /\ ret.result.tag = "GlobalTrackerAlreadySet") =>
          ret.calls = 0 /\ ret.tracker = UNREAD /\ ret.got = NoState
    /\ (ret.op.kind \in ReadKinds /\ ret.result.tag = "Ok") =>
          /\ ret.calls = 1
          /\ ret.tracker = winner.prov
          /\ ret.got \in Snapshots(winner.prov)

\* a loser has returned, the winner has probed, and an unchecked read succeeded
C23_Witness ==
    /\ ret.op.kind = "feature_state_unchecked" /\ ret.result.tag = "Ok"
    /\ ret.calls = 1 /\ ret.tracker = winner.prov
    /\ winner.res = "Ok" /\ casLost = 1

(***************************************************************************)
(* C26.  For every variant, the default function that the checked macro    *)
(* paths (feature_enabled_or_default!, and feature_enabled! under          *)
(* cfg(test)) call is one that define_features! generated: no invocation   *)
(* is rejected by the compiler, and the fallback yields the declared       *)
(* default.                                                                *)
(***************************************************************************)
C26_DefaultFunctionResolves ==
    (ret.op.kind \in MacroKinds /\ Checked(ret.op)) =>
       /\ ret.result.tag # "CompileError"
       /\ generate_call_field_default_fn(ret.op.flag) \in DOMAIN default_fns
       /\ ret.calls = 0 => ret.result = R("Value", SchemaDefault(ret.op.flag))

(***************************************************************************)
(* C28.  GlobalTrackerAlreadySet does not mean the tracker is readable:    *)
(* while the winner is between its exchange and its store of INITIALIZED,  *)
(* another thread's set_global_tracker returns GlobalTrackerAlreadySet at  *)
(* once, and that thread's next try_feature_state, if its guard still      *)
(* loads INITIALIZING, returns NoGlobalTracker without reading the slot.   *)
(***************************************************************************)
C28_AlreadySetBeforeReadable ==
    /\ \A t \in Threads :
          ( /\ pc[t] = "idle" /\ casWon + casLost < MaxSetCalls
            /\ GLOBAL_TRACKER_INIT = INITIALIZING )
             => ENABLED ( /\ SetGlobalTracker(t)
                          /\ ret'.result.tag = "GlobalTrackerAlreadySet"
                          /\ GLOBAL_TRACKER_INIT' = INITIALIZING )
    /\ \A t \in Threads :
          ( /\ rejected[t] /\ pc[t] = "guard" /\ op[t].kind = "try_feature_state"
            /\ GLOBAL_TRACKER_INIT = INITIALIZING )
             => ENABLED (Guard(t) /\ ret'.result.tag = "NoGlobalTracker")
    /\ (ret.op.kind = "try_feature_state" /\ ret.rejected) =>
          /\ ret.seen \in {INITIALIZING, INITIALIZED}
          /\ ret.seen = INITIALIZING =>
                ret.result.tag = "NoGlobalTracker" /\ ret.tracker = UNREAD

\* the thread that had just received GlobalTrackerAlreadySet got NoGlobalTracker
\* from its next checked read, the winner being still at work
C28_Witness ==
    /\ ret.op.kind = "try_feature_state" /\ ret.rejected
    /\ ret.result.tag = "NoGlobalTracker" /\ ret.seen = INITIALIZING
    /\ GLOBAL_TRACKER_INIT = INITIALIZING
    /\ \E w \in Threads : IsSet(op[w]) /\ pc[w] \in {"store_slot", "store_init"}
    /\ casLost = 1

(***************************************************************************)
(* C29.  Once a registration has returned BadCast for T, the state stays   *)
(* INITIALIZED and the slot keeps the mismatched tracker in every step,    *)
(* and every try_feature_state::<T> begun afterwards returns Err(BadCast). *)
(***************************************************************************)
C29_Stays ==
    (ret.op.kind = "try_feature_state" /\ ret.after
       /\ winner.res = "BadCast" /\ ret.op.T = winner.T)
       => /\ ret.result.tag = "BadCast"
          /\ ret.seen = INITIALIZED
          /\ ret.tracker = winner.prov

C29_Step ==
    winner.res = "BadCast" =>
       /\ GLOBAL_TRACKER_INIT = INITIALIZED /\ GLOBAL_TRACKER = winner.prov
       /\ UNCHANGED shared
       /\ winner' = winner

\* C29: a mismatched registration is permanent
C29_BadCastPermanent == [](C29_Stays) /\ [][C29_Step]_vars

\* after the BadCast a second registration was rejected and a checked read
\* for T got BadCast
C29_Witness ==
    /\ winner.res = "BadCast" /\ casLost = 1
    /\ ret.op.kind = "try_feature_state" /\ ret.after /\ ret.op.T = winner.T
    /\ ret.result.tag = "BadCast"

(***************************************************************************)
(* Vocabulary of the properties of config schemas.                         *)
(***************************************************************************)
IsPrefix(p, q) == Len(p) <= Len(q) /\ SubSeq(q, 1, Len(p)) = p

\* the leaves of the schema node at np, each by its path from that node
LeavesBelow(np) == LeafPaths(SchemaAt(schema, np))

\* two snapshots of the node at np agree on the leaf at lp
SameLeaf(s1, s2, lp) == Walk(s1, lp).val = Walk(s2, lp).val

RECURSIVE TaggedPaths(_, _)
\* the fields tagged restart anywhere below a schema node
TaggedPaths(node, p) ==
    UNION {
        (IF "restart" \in node.fields[i].attrs THEN {Append(p, node.fields[i].ident)} ELSE {})
        \cup (IF node.fields[i].kind = "Struct"
              THEN TaggedPaths(Nested(node.fields[i]), Append(p, node.fields[i].ident))
              ELSE {})
        : i \in DOMAIN node.fields }

\* the descendants of the schema node at np, each by its path from that node
DescendantPaths(np) == PathsTo(SchemaAt(schema, np), <<>>, "Struct")

(***************************************************************************)
(* C14.  When a compact value that equals compact(x) is frozen with        *)
(* arcify, the result has the type of x and the value of x at every leaf,  *)
(* at every depth.                                                         *)
(***************************************************************************)
C14_Step ==
    ( /\ Len(scratch) = 1 /\ Len(other_config') = 1
      /\ scratch[1] = compact(Crate, config[1]) )
       => /\ \A np \in NodePaths(schema) :
                NodeAt(other_config'[1].val, np).ty = NodeAt(config[1], np).ty
          /\ \A lp \in LeavesBelow(<<>>) : SameLeaf(other_config'[1].val, config[1], lp)

\* C14: arcify(compact(x)) is deep-equal to x
C14_FreezeAfterCompact == [][C14_Step]_vars

\* a snapshot with a non-zero leaf at depth three came back equal, in new allocations
C14_Witness ==
    /\ Len(other_config) = 1
    /\ Walk(config[1], <<"bar", "baz", "foo">>).val = 1
    /\ \A lp \in LeavesBelow(<<>>) : SameLeaf(other_config[1].val, config[1], lp)
    /\ Walk(other_config[1].val, <<"bar", "baz">>).ptr # Walk(config[1], <<"bar", "baz">>).ptr

(***************************************************************************)
(* C15.  For every node A of the schema and every node B below it, at any  *)
(* depth, exactly one AsField<B> for A is emitted, over the declared field *)
(* path, and a.share() returns the very allocation that holds B in a.      *)
(***************************************************************************)
C15_ShareIsThePointerOnThePath ==
    /\ Built =>
          \A np \in NodePaths(schema) : \A dp \in DescendantPaths(np) :
              LET impls == AsFieldImpls(Crate, SchemaAt(schema, np).ty,
                                        SchemaAt(schema, np \o dp).ty)
              IN Len(impls) = 1 /\ impls[1].body = dp
    /\ (Len(out) = 1 /\ out[1].op = "share") =>
          LET dp == CHOOSE d \in DescendantPaths(out[1].node) :
                       SchemaAt(schema, out[1].node \o d).ty = out[1].target
          IN /\ out[1].val.arc
             /\ out[1].val.ptr = <<0, out[1].node \o dp>>
             /\ out[1].val.val = NodeAt(config[1], out[1].node \o dp)

\* the root projected to the node two levels down
C15_Witness ==
    /\ Len(out) = 1 /\ out[1].op = "share"
    /\ out[1].node = <<>> /\ out[1].target = "ConfigC"
    /\ out[1].val.ptr = <<0, <<"bar", "baz">>>>

(***************************************************************************)
(* C16.  s1.restart_required(s2) on two snapshots of a schema node is true *)
(* exactly when some field tagged restart anywhere below that node, also   *)
(* inside an untagged nested node, differs between s1 and s2.              *)
(***************************************************************************)
C16_RestartIffTaggedFieldDiffers ==
    (Len(out) = 1 /\ out[1].op = "restart_required") =>
       LET np == out[1].node
           s1 == NodeAt(config[1], np)
           s2 == NodeAt(other_config[1].val, np)
       IN out[1].val =
             (\E tp \in TaggedPaths(SchemaAt(schema, np), <<>>) :
                 \E lp \in LeavesBelow(np) : IsPrefix(tp, lp) /\ ~SameLeaf(s1, s2, lp))

RECURSIVE TagFieldsInstead(_, _)
\* the declaration with the restart tag of the nested field at path moved from
\* that field to every direct field of the node it holds
TagFieldsInstead(node, path) ==
    LET i == CHOOSE j \in DOMAIN node.fields : node.fields[j].ident = path[1]
        fld == node.fields[i]
        inner == Nested(fld)
        moved == NestableStruct(inner.ty,
                    [j \in DOMAIN inner.fields |->
                        [inner.fields[j] EXCEPT !.attrs = @ \cup Restart]])
        new == IF Len(path) = 1
               THEN [fld EXCEPT !.attrs = @ \ Restart, !.nested = <<moved>>]
               ELSE [fld EXCEPT !.nested = <<TagFieldsInstead(inner, Tail(path))>>]
    IN NestableStruct(node.ty, [node.fields EXCEPT ![i] = new])

\* the nested nodes below the schema node at np whose holding field is tagged
TaggedNodes(np) ==
    {q \in DescendantPaths(np) :
        LET holder == SchemaAt(schema, np \o SubSeq(q, 1, Len(q) - 1))
        IN \E j \in DOMAIN holder.fields :
              /\ holder.fields[j].ident = q[Len(q)]
              /\ "restart" \in holder.fields[j].attrs}

(***************************************************************************)
(* C24.  For a nested node whose holding field is tagged restart,          *)
(* restart_required gives on every pair of snapshots the result it gives   *)
(* when the tag is written on every direct field of that node instead; it  *)
(* is true when a direct field of the tagged node differs.                 *)
(***************************************************************************)
C24_NodeTagIsTagOnEveryField ==
    (Len(out) = 1 /\ out[1].op = "restart_required") =>
       LET np == out[1].node
           s1 == NodeAt(config[1], np)
           s2 == NodeAt(other_config[1].val, np)
       IN \A q \in TaggedNodes(np) :
             LET instead == ExpandDerives(
                               config_struct(TagFieldsInstead(schema, np \o q)).items)
             IN /\ out[1].val = restart_required_run(instead, s1, s2)
                /\ (\E lp \in LeavesBelow(np \o q) :
                       ~SameLeaf(NodeAt(s1, q), NodeAt(s2, q), lp)) => out[1].val

\* the allocations a snapshot of the whole schema shares with its holders
Allocations(root) == {Walk(root, q).ptr : q \in DescendantPaths(<<>>)}

(***************************************************************************)
(* C25.  compact(), edits of the compact value and arcify() leave the      *)
(* snapshot they started from as it was: no step changes the baseline or   *)
(* any node it shares, a projection taken after the re-freeze still sees   *)
(* the old values, and the re-frozen snapshot lives in allocations of its  *)
(* own.                                                                    *)
(***************************************************************************)
C25_Isolated ==
    /\ Len(other_config) = 1 =>
          /\ other_config[1].ptr \notin Allocations(config[1])
          /\ Allocations(other_config[1].val) \cap Allocations(config[1]) = {}
          /\ \A q \in DescendantPaths(<<>>) : Walk(config[1], q).ptr = <<0, q>>
    /\ (Len(out) = 1 /\ out[1].op = "share") =>
          \E q \in DescendantPaths(<<>>) : out[1].val = Walk(config[1], q)

C25_Step == Len(config) = 1 => config' = config

\* C25: the original snapshot is immutable under compact, edit and arcify
C25_OriginalUntouched == [](C25_Isolated) /\ [][C25_Step]_vars

\* after the re-freeze with bar.baz.foo edited, the root still projects to the
\* old node
C25_Witness ==
    /\ Len(other_config) = 1
    /\ Walk(other_config[1].val, <<"bar", "baz", "foo">>).val = 1
    /\ Walk(config[1], <<"bar", "baz", "foo">>).val = 0
    /\ Len(out) = 1 /\ out[1].op = "share" /\ out[1].target = "ConfigC"
    /\ out[1].val.val.f["foo"].val = 0
    /\ out[1].val.ptr = <<0, <<"bar", "baz">>>>

(***************************************************************************)
(* C18.  config_struct! on a schema that uses a node type identifier twice *)
(* ends in an error and emits nothing.                                     *)
(***************************************************************************)
C18_DuplicateTypeRejected ==
    (Len(emitted) = 1 /\ ~UniqueTypes(schema)) =>
       emitted[1].error /\ emitted[1].items = <<>>

(***************************************************************************)
(* Vocabulary of the properties of fetchers.                               *)
(***************************************************************************)
\* the snapshot the parent returns on its k-th call
Generation(k) == IF k > cut_over THEN make_fetcher.config2 ELSE make_fetcher.config1

\* the projection of a parent snapshot: the Arc in its field bar
Projected(g) == g.val.f["bar"]

OnlySubFetcherCalled == \A k \in DOMAIN log : log[k].via = "sub_fetcher"

(***************************************************************************)
(* C12.  When only the sub-fetcher is called, its k-th call returns the    *)
(* projection of the parent's k-th snapshot, for every k.                  *)
(***************************************************************************)
C12_SubFetcherFollowsParent ==
    OnlySubFetcherCalled =>
       \A k \in DOMAIN log : log[k].got = Projected(Generation(k))

\* four calls of the sub-fetcher across the cut-over of the test fixture
C12_Witness ==
    /\ OnlySubFetcherCalled /\ Len(log) = 4 /\ cut_over = 2
    /\ log[2].got.val.f["val"].val = 0
    /\ log[3].got.val.f["val"].val = 1
    /\ log[3].got.ptr = <<2, <<"bar">>>>

(***************************************************************************)
(* C13.  Every call, on the parent handle or on the sub-fetcher, advances  *)
(* the one parent by exactly one call, so the k-th call overall observes   *)
(* the parent's k-th snapshot: the sub-fetcher holds no snapshot of its    *)
(* own.                                                                    *)
(***************************************************************************)
C13_Observes ==
    /\ counter[fetcher] = Len(log)
    /\ \A k \in DOMAIN log :
          IF log[k].via = "sub_fetcher"
          THEN log[k].got = Projected(Generation(k))
          ELSE log[k].got = Generation(k)

C13_Step ==
    (Len(log') = Len(log) + 1) => counter'[fetcher] = counter[fetcher] + 1

\* C13: a derived sub-fetcher holds no cached snapshot
C13_NoCaching == [](C13_Observes) /\ [][C13_Step]_vars

\* parent, sub-fetcher, parent, sub-fetcher: the change made visible by the
\* third call is seen by the sub-fetcher in the fourth
C13_Witness ==
    /\ Len(log) = 4 /\ cut_over = 2
    /\ log[1].via = "fetcher" /\ log[2].via = "sub_fetcher"
    /\ log[3].via = "fetcher" /\ log[4].via = "sub_fetcher"
    /\ log[2].got.val.f["val"].val = 0
    /\ log[4].got.val.f["val"].val = 1
    /\ log[4].got = Projected(log[3].got)

(***************************************************************************)
(* Vocabulary of the properties of concurrent and chained adapters.        *)
(***************************************************************************)
Generations == {make_fetcher_abc.config1, make_fetcher_abc.config2}

RECURSIVE OfGeneration(_, _)
\* every allocation and every leaf of x was made for the e-th snapshot
OfGeneration(x, e) ==
    IF x.arc
    THEN /\ x.ptr[1] = e
         /\ \A id \in DOMAIN x.val.f : OfGeneration(x.val.f[id], e)
    ELSE x.val = e - 1

RootInvocations == Len(log) + Cardinality({t \in Threads : inflight[t].at \in {"load", "closure"}})

(***************************************************************************)
(* C27.  While the root advances under concurrent calls, every call of an  *)
(* adapter returns the projection of the one snapshot that its own single  *)
(* call of the root returned, and nothing in the result belongs to the     *)
(* other generation.                                                       *)
(***************************************************************************)
C27_OneGenerationPerCall ==
    /\ \A k \in DOMAIN log :
          log[k].via # fetcher =>
             /\ Len(log[k].parent) = 1
             /\ log[k].parent[1] \in Generations
             /\ log[k].got = share(AbcCrate, log[k].parent[1].val, Adapter(log[k].via).T2)
             /\ OfGeneration(log[k].got, log[k].parent[1].ptr[1])
    /\ \A t \in Threads :
          /\ Len(inflight[t].parent) <= 1
          /\ Len(inflight[t].cur) = 1 =>
                OfGeneration(inflight[t].cur[1], inflight[t].parent[1].ptr[1])

\* two adapter calls overlapped the advance: the one that returned later still
\* carries the older generation, whole
C27_Witness ==
    \E i, j \in DOMAIN log :
       /\ i < j
       /\ log[i].via # fetcher /\ log[j].via # fetcher
       /\ log[i].parent[1] = make_fetcher_abc.config2
       /\ log[j].parent[1] = make_fetcher_abc.config1
       /\ OfGeneration(log[i].got, 2)
       /\ OfGeneration(log[j].got, 1)

(***************************************************************************)
(* C30.  An adapter to ConfigC built on the adapter to ConfigB returns, on *)
(* every call, the very allocation the direct adapter to ConfigC returns   *)
(* for the same root snapshot, and every call invokes the root once.       *)
(***************************************************************************)
C30_ChainEqualsDirect ==
    /\ \A k \in DOMAIN log :
          log[k].via = 4 =>
             /\ Len(log[k].parent) = 1
             /\ log[k].got = share(AbcCrate, log[k].parent[1].val, c_fetcher.T2)
    /\ \A i, j \in DOMAIN log :
          (log[i].via = 4 /\ log[j].via = 3 /\ log[i].parent = log[j].parent) =>
             log[i].got = log[j].got
    /\ counter[fetcher] = RootInvocations

\* a chained and a direct call that met the second snapshot hold one allocation
C30_Witness ==
    \E i, j \in DOMAIN log :
       /\ log[i].via = 4 /\ log[j].via = 3
       /\ log[i].parent = <<make_fetcher_abc.config2>>
       /\ log[j].parent = log[i].parent
       /\ log[i].got.ptr = <<2, <<"bar", "baz">>>>
       /\ log[j].got.ptr = log[i].got.ptr
       /\ counter[fetcher] = 2

(***************************************************************************)
(* Vocabulary of the properties of feature states.                         *)
(***************************************************************************)
\* the flag declared i-th carries #[conspiracy(restart)]
Tagged(i) == \E j \in DOMAIN attrs[i] : attrs[i][j] = ConspiracyRestart

\* the default written in the declaration of the flag with field name f
DeclaredDefault(f) ==
    Features[CHOOSE i \in DOMAIN Features : ToSnake(Features[i].name) = f].default

(***************************************************************************)
(* C17.  s1.restart_required(s2) on two states of the feature schema is    *)
(* true exactly when a flag tagged #[conspiracy(restart)] has different    *)
(* values in s1 and s2.                                                    *)
(***************************************************************************)
C17_FeatureRestartIffTaggedFlagDiffers ==
    Len(rr) = 1 =>
       rr[1].val =
          (\E i \in DOMAIN Features :
              /\ Tagged(i)
              /\ rr[1].self[ToSnake(Features[i].name)] # states[1][ToSnake(Features[i].name)])

\* a tagged flag, declared after another attribute, differs: restart required;
\* an untagged flag differs too
C17_Witness ==
    /\ Len(rr) = 1 /\ rr[1].val
    /\ attrs[3] = <<ConspiracyOther, ConspiracyRestart>> /\ attrs[1] = <<>>
    /\ rr[1].self = default_impl
    /\ states[1][ToSnake(UseQuic)] # default_impl[ToSnake(UseQuic)]
    /\ states[1][ToSnake(Foo)] # default_impl[ToSnake(Foo)]

(***************************************************************************)
(* C20.  The state in a builder has, for every flag, the value of the last *)
(* setter call for it, or the declared default when there was none; a      *)
(* setter changes no flag but its own; build() returns that state.         *)
(***************************************************************************)
C20_LastSetterOrDefault ==
    Len(builder) = 1 =>
       \A f \in FieldNames :
          builder[1][f] = IF last[f] = <<>> THEN DeclaredDefault(f) ELSE last[f][1]

C20_Step ==
    /\ (Len(builder) = 1 /\ Len(builder') = 1) =>
          \A f \in FieldNames : last'[f] = last[f] => builder'[1][f] = builder[1][f]
    /\ (Len(builder) = 1 /\ Len(builder') = 0) =>
          \A f \in FieldNames :
             states'[1][f] = IF last[f] = <<>> THEN DeclaredDefault(f) ELSE last[f][1]

\* C20: the built state holds the last set value or the default of every flag
C20_BuilderFrame == [](C20_LastSetterOrDefault) /\ [][C20_Step]_vars

\* built after bar was set to false, against its default, and foo to true;
\* use_quic never set
C20_Witness ==
    /\ Len(states) = 1 /\ Len(builder) = 0
    /\ last[ToSnake(Bar)] = <<FALSE>> /\ last[ToSnake(Foo)] = <<TRUE>>
    /\ last[ToSnake(UseQuic)] = <<>>
    /\ states[1][ToSnake(Bar)] = FALSE /\ states[1][ToSnake(Foo)] = TRUE
    /\ states[1][ToSnake(UseQuic)] = FALSE

====
